------------------------------- MODULE Feeds -------------------------------
(***************************************************************************)
(* The gate on a product's update feeds, and the update periods sold       *)
(* behind it (internal/handler/admin.go, internal/handler/                 *)
(* release_public.go, internal/store/release.go, internal/store/admin.go,  *)
(* internal/store/settings.go and the triggers of the maintenance          *)
(* migration).                                                             *)
(*                                                                         *)
(* A public feed hands out links that work for their lifetime whatever     *)
(* happens to the feed.  So a finite update period needs feeds that ask    *)
(* for the licence, and needs what was handed out before to have expired.  *)
(* An update of the product reads it, then writes under the product's row  *)
(* and gating locks; a feed request reads the product, then signs.  Times  *)
(* are ticks left, and ticks since, up to the longest that matters.        *)
(***************************************************************************)
EXTENDS Integers, FiniteSets

CONSTANTS
  Admins,      \* requests that update the product
  LinkLife     \* the longest a link works: the recorded bound

FeedsAssumption == IsFiniteSet(Admins) /\ LinkLife \in Nat \ {0}

VARIABLES
  product,     \* the product's row
  live,        \* a release is published
  shipped,     \* a release has been published at some time
  period,      \* a plan or a licence of the product has a finite period
  request,     \* a feed request between its read and its links
  usable,      \* for how long something a public feed handed out still works
  admins,      \* what each update of the product is doing
  late,        \* history: a request that read the product before the gate signed after it
  misjudged    \* history: feeds came back gated by a request that had judged the
               \* product by a type or a gate that had changed since

vars == <<product, live, shipped, period, request, usable, admins, late, misjudged>>

Ticks == 0..LinkLife
Never == -1
\* serves: its type has releases, hence feeds; gated: they ask for the
\* licence; gatedFor: for how long the gate has been up (feed_gated_at).
ProductType == [serves : BOOLEAN, gated : BOOLEAN, gatedFor : Ticks \cup {Never}]
Keep == "keep"
AdminType == [pc : {"idle", "write"}, read : [serves : BOOLEAN, gated : BOOLEAN],
              type : {Keep, "serves", "none"}, gate : {Keep, "on", "off"}]
Fresh == [serves |-> TRUE, gated |-> FALSE, gatedFor |-> Never]
\* What a request judges the product by.
Shape(p) == [serves |-> p.serves, gated |-> p.gated]
Idle == [pc |-> "idle", read |-> Shape(Fresh), type |-> Keep, gate |-> Keep]

TypeOK ==
  /\ product \in ProductType
  /\ {live, shipped, period, late, misjudged} \subseteq BOOLEAN
  /\ request \in {"none", "read"}
  /\ usable \in Ticks
  /\ admins \in [Admins -> AdminType]

Init ==
  /\ product = Fresh
  /\ live = FALSE /\ shipped = FALSE /\ period = FALSE
  /\ request = "none" /\ usable = 0
  /\ admins = [a \in Admins |-> Idle]
  /\ late = FALSE /\ misjudged = FALSE

Aged(row) == IF row.gatedFor \in {Never, LinkLife} THEN row ELSE [row EXCEPT !.gatedFor = @ + 1]

Tick ==
  /\ product' = Aged(product)
  /\ usable' = IF usable = 0 THEN 0 ELSE usable - 1
  /\ UNCHANGED <<live, shipped, period, request, admins, late, misjudged>>

\* A release is published, or the published ones are yanked.
Releases ==
  /\ \/ product.serves /\ live' = TRUE /\ shipped' = TRUE
     \/ live' = FALSE /\ UNCHANGED shipped
  /\ UNCHANGED <<product, period, request, usable, admins, late, misjudged>>

-----------------------------------------------------------------------------
(* A feed request without a licence. *)

\* parseFeedRequest: the product has feeds, and they are public.
FeedRead ==
  /\ request = "none"
  /\ product.serves /\ ~product.gated
  /\ request' = "read"
  /\ UNCHANGED <<product, live, shipped, period, usable, admins, late, misjudged>>

\* fetchPublishedFeedReleases: each link works for this replica's lifetime,
\* and a shared cache may serve the whole feed for a while.
FeedSign ==
  /\ request = "read"
  /\ request' = "none"
  /\ \E life \in 1..LinkLife :
       usable' = IF live /\ life > usable THEN life ELSE usable
  /\ late' = (late \/ (live /\ (product.gated \/ ~product.serves)))
  /\ UNCHANGED <<product, live, shipped, period, admins, misjudged>>

-----------------------------------------------------------------------------
(* How long the gate must have been up. *)

\* MUTANT: what this replica signs with.
Drain_Own(own) == own

\* The recorded bound counts, where it is longer than the lifetime this
\* replica signs with.
Drain(own) == IF LinkLife > own THEN LinkLife ELSE own

\* FeedDrainLeftIn leaves nothing.
Drained(p, own) ==
  \/ p.gatedFor = Never
  \/ ~shipped
  \/ p.gatedFor >= Drain(own)

\* FeedsCanEnforcePeriodsIn, feedGateCheck.
Enforceable(own) == product.serves => product.gated /\ Drained(product, own)

\* A plan with an update period or renewals, or a licence with a cutoff, is
\* written under the gating lock (lockFeedGateIn).
SetPeriod ==
  /\ \E own \in 1..LinkLife : Enforceable(own)
  /\ period' = TRUE
  /\ UNCHANGED <<product, live, shipped, request, usable, admins, late, misjudged>>

\* The last of them is gone.
EndPeriods ==
  /\ period
  /\ period' = FALSE
  /\ UNCHANGED <<product, live, shipped, request, usable, admins, late, misjudged>>

-----------------------------------------------------------------------------
(* UpdateProduct. *)

\* What the request would make of the product it read.
Target(a) ==
  [serves |-> IF admins[a].type = Keep THEN admins[a].read.serves ELSE admins[a].type = "serves",
   gated |-> IF admins[a].gate = Keep THEN admins[a].read.gated ELSE admins[a].gate = "on"]

\* The product must not get public feeds while a period exists, nor lose
\* its type under a live release: checked once here and again in the write.
UpdateStarts(a) ==
  /\ admins[a].pc = "idle"
  /\ \E type \in {Keep, "serves", "none"} : \E gate \in {Keep, "on", "off"} :
       /\ <<type, gate>> # <<Keep, Keep>>
       /\ ~(type = "none" /\ product.serves /\ live)
       /\ LET serves == IF type = Keep THEN product.serves ELSE type = "serves"
              gated == IF gate = Keep THEN product.gated ELSE gate = "on" IN
          ~(serves /\ ~gated /\ (product.gated \/ ~product.serves) /\ period)
       /\ admins' = [admins EXCEPT ![a] = [pc |-> "write", read |-> Shape(product), type |-> type, gate |-> gate]]
  /\ UNCHANGED <<product, live, shipped, period, request, usable, late, misjudged>>

GatingNow(a) == admins[a].gate = "on" /\ ~admins[a].read.gated
\* It had no feeds when the request read it, and gets them, gated.
RestoringFeeds(a) == ~admins[a].read.serves /\ Target(a).serves /\ Target(a).gated

\* The row with the gate just up; and the row as the request writes
\* it: only the columns named, the trigger stamping a gate that goes up.
GateUp(row) == [row EXCEPT !.gated = TRUE, !.gatedFor = 0]
Columns(a, row) ==
  LET typed == IF admins[a].type = Keep THEN row ELSE [row EXCEPT !.serves = Target(a).serves] IN
  IF admins[a].gate = Keep \/ GatingNow(a) THEN typed
  ELSE IF Target(a).gated /\ ~row.gated THEN GateUp(typed)
  ELSE [typed EXCEPT !.gated = Target(a).gated]

\* products_keep_feed_gated.
TriggerRefuses(old, new) == new.serves /\ ~new.gated /\ (old.gated \/ ~old.serves) /\ period

\* The transaction.  Where the drain is not over, the gate alone is saved.
UpdateWrites(a) ==
  LET up == IF GatingNow(a) THEN GateUp(product) ELSE product
      waits(own) == RestoringFeeds(a) /\ period /\ ~Drained(up, own) IN
  /\ admins[a].pc = "write"
  /\ \E own \in 1..LinkLife :
       product' = IF Target(a).serves # product.serves /\ admins[a].type = "none" /\ live THEN product
                  ELSE IF waits(own) THEN up
                  ELSE IF TriggerRefuses(up, Columns(a, up)) THEN product
                  ELSE Columns(a, up)
  /\ misjudged' = (misjudged \/ (~product.serves /\ product'.serves /\ product'.gated
                                 /\ admins[a].read # Shape(product)))
  /\ admins' = [admins EXCEPT ![a] = Idle]
  /\ UNCHANGED <<live, shipped, period, request, usable, late>>

Next ==
  \/ Tick \/ Releases \/ FeedRead \/ FeedSign \/ SetPeriod \/ EndPeriods
  \/ \E a \in Admins : UpdateStarts(a) \/ UpdateWrites(a)

Spec == Init /\ [][Next]_vars

-----------------------------------------------------------------------------
(* Properties. *)

\* Where a product with feeds sells update periods, no copy of a public
\* feed and no link from one can get round them.
Enforced == product.serves /\ period => product.gated /\ usable = 0

\* Whatever updates, gates, ungates and type changes interleave, short of a
\* request that straddles the gate, or feeds given back on a stale read.
PeriodsAreEnforced == ~late /\ ~misjudged => Enforced
=============================================================================

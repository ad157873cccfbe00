-------------------------------- MODULE Budget ---------------------------------
(***************************************************************************)
(* What a session may spend (session/Budget.ts).  Every expense is written *)
(* to the journal and then, in a second step, to a floor file that outlives *)
(* the journal: a restore of an old backup must not make spent money       *)
(* available again.                                                        *)
(*                                                                         *)
(* One application writes; it may die between any two writes, and another  *)
(* process may record prices at any time.  The cost in money goes the way  *)
(* of the tokens and is left out; so are the three pools of one limit that *)
(* differ only in their numbers.  A provider bills at most what was        *)
(* reserved.                                                               *)
(***************************************************************************)
EXTENDS Integers, FiniteSets, Functions

CONSTANTS
    Requests, Tokens,   \* the limits at the start
    Talk,               \* requests of them kept for the communication with the user
    Sizes,              \* what a request may reserve
    Additions, Prices,  \* additions to the limits, changes of prices (bounds)
    Lives,              \* (bound)
    None

VARIABLE v

vars == v

Keys == {"requests", "tokens"}

\* What the constants are (assumed where the module is instantiated).
BudgetAssumption ==
    /\ {Requests, Tokens, Talk, Additions, Prices, Lives} \subseteq Nat
    /\ Sizes \subseteq Nat \ {0} /\ Talk < Requests
    /\ None \notin [used : [Keys -> Int], limits : [Keys -> Int]]

Zero == [k \in Keys |-> 0]
Limits == [k \in Keys |-> IF k = "requests" THEN Requests ELSE Tokens]
Larger(f, g) == [k \in Keys |-> IF f[k] >= g[k] THEN f[k] ELSE g[k]]
Plus(f, req, tok) == [f EXCEPT !["requests"] = @ + req, !["tokens"] = @ + tok]

TypeOK ==
    /\ \A f \in {v.j.used, v.j.limits, v.due} : f \in [Keys -> Nat]
    /\ v.j.pending \subseteq Nat \X Sizes /\ v.open \subseteq Nat \X Sizes
    /\ v.life \in 1..Lives /\ v.up \in BOOLEAN /\ v.price \in 0..Prices

Idle == v.up /\ v.step = None

\* A floor above the journal is taken over; what was pending then stays spent for good.
Ensured(j) ==
    IF v.floor = None \/ \A k \in Keys : v.floor.used[k] <= j.used[k] THEN j
    ELSE [used |-> Larger(j.used, v.floor.used), limits |-> Larger(j.limits, v.floor.limits),
          pending |-> {}]

-----------------------------------------------------------------------------

\* The price is looked up; by the time of the reservation it must be the same one.
Quotes(n, talk) ==
    /\ Idle
    /\ v' = [v EXCEPT !.step = [kind |-> "quoted", size |-> n, talk |-> talk, price |-> v.price]]

\* Reservations that are known somewhere; a new one is another.
Taken ==
    {r[1] : r \in v.j.pending \cup v.open \cup (IF v.backup = None THEN {} ELSE v.backup.pending)}

\* Only the communication of the root may use what is kept for it.  A reservation that no
\* longer fits is refused; what is left of the tokens may shorten it.
Reserves ==
    /\ v.step # None /\ v.step.kind = "quoted"
    /\ LET j == Ensured(v.j)
           s == v.step
           room == j.limits["tokens"] - j.used["tokens"]
           fits == j.used["requests"] < j.limits["requests"] - (IF s.talk THEN 0 ELSE Talk)
           id == CHOOSE i \in 1..(Cardinality(Taken) + 1) :
                    /\ i \notin Taken
                    /\ \A k \in 1..(i - 1) : k \in Taken
           n == IF s.size <= room THEN s.size ELSE room
       IN CASE ~fits \/ n \notin Sizes ->
                    v' = [v EXCEPT !.j = j, !.step = None]
            [] fits /\ n \in Sizes /\ v.price # s.price ->
                    \E step \in {None, [s EXCEPT !.price = v.price]} :   \* given up after three
                        v' = [v EXCEPT !.j = j, !.step = step]
            [] OTHER ->
                    v' = [v EXCEPT !.j = [j EXCEPT !.used = Plus(@, 1, n), !.pending = @ \cup {<<id, n>>}],
                               !.step = [kind |-> "reserved", grant |-> {<<id, n>>}]]

\* The floor file; only then the request is sent.
Persists ==
    /\ v.step # None /\ v.step.kind = "reserved"
    /\ v' = [v EXCEPT !.floor = [used |-> v.j.used, limits |-> v.j.limits],
                !.step = None, !.open = @ \cup v.step.grant,
                !.due = [k \in Keys |-> @[k] + (IF v.step.grant = {} THEN 0
                                               ELSE IF k = "requests" THEN 1
                                               ELSE (CHOOSE r \in v.step.grant : TRUE)[2])]]

\* The answer says what it used, or nothing is known and all of it counts.
Settles(r, used) ==
    /\ Idle /\ r \in v.open /\ used <= r[2]
    /\ LET j == Ensured(v.j)
           saved == IF r \in j.pending THEN r[2] - used ELSE 0
       IN v' = [v EXCEPT !.open = @ \ {r},
                   !.j = [j EXCEPT !.used["tokens"] = @ - saved, !.pending = @ \ {r}],
                   !.due["tokens"] = @ - (r[2] - used),
                   !.step = IF r \in j.pending THEN [kind |-> "reserved", grant |-> {}] ELSE None]

Adds ==
    /\ Idle /\ v.added < Additions
    /\ LET j == Ensured(v.j)
       IN v' = [v EXCEPT !.j = [j EXCEPT !.limits = Plus(@, 1, 1)], !.added = @ + 1,
                   !.step = [kind |-> "reserved", grant |-> {}]]

Reprices == v.price < Prices /\ v' = [v EXCEPT !.price = @ + 1]

Dies == v.up /\ v.life < Lives /\ v' = [v EXCEPT !.up = FALSE, !.step = None, !.open = {}]
Restarts == ~v.up /\ v' = [v EXCEPT !.up = TRUE, !.life = @ + 1]

BacksUp == v.up /\ v.backup # v.j /\ v' = [v EXCEPT !.backup = v.j]
GoesBack == ~v.up /\ v.backup # None /\ v.backup # v.j /\ v' = [v EXCEPT !.j = v.backup]

-----------------------------------------------------------------------------

Init ==
    v = [j |-> [used |-> Zero, limits |-> Limits, pending |-> {}], floor |-> None,
         backup |-> None, step |-> None, open |-> {}, due |-> Zero, added |-> 0,
         price |-> 0, up |-> TRUE, life |-> 1]

Next ==
    \/ \E n \in Sizes, talk \in BOOLEAN : Quotes(n, talk)
    \/ \E r \in v.open, used \in 0..Tokens : Settles(r, used)
    \/ Reserves \/ Persists \/ Adds \/ Reprices \/ Dies \/ Restarts \/ BacksUp \/ GoesBack

Spec == Init /\ [][Next]_vars

-----------------------------------------------------------------------------

\* Whatever dies and whatever backup comes back, all requests ever sent, with what they used
\* or, if that is not known, with what they reserved, are within the limits ever allowed, and
\* the journal and the floor file together know of them (session/Budget.ts).
SpendingIsKept ==
    \A k \in Keys :
        /\ v.due[k] <= Limits[k] + v.added
        /\ v.due[k] <= v.j.used[k] \/ (v.floor # None /\ v.due[k] <= v.floor.used[k])

=============================================================================

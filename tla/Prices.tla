-------------------------------- MODULE Prices --------------------------------
(***************************************************************************)
(* The price book of a session: contract prices that a user imports,       *)
(* replaces and revokes from the command line (session/PriceImport.ts),    *)
(* prices set by hand (session/Pricing.ts), official prices fetched from a *)
(* provider (session/PriceSync.ts), and the reservations that quote them   *)
(* (session/Budget.ts).                                                    *)
(*                                                                         *)
(* All changes are events of the journal, appended under its lock with a   *)
(* guard; what a command knows it has read before, in several steps.  Time *)
(* is counted in units of the interval between two fetches.                *)
(*                                                                         *)
(* A behaviour is about contracts or about fetched prices.                 *)
(*                                                                         *)
(* Left out: amounts and currencies, the format of tables and documents,   *)
(* previews (they change nothing), issuers, a second source.               *)
(***************************************************************************)
EXTENDS Naturals, FiniteSets

CONSTANTS
    Processes,
    Rows,       \* rows of all tables: [table, scope, since, to]
    Fetched,    \* the scope (model and endpoint) that a provider publishes
    Listing,    \* documents of the provider that list this model
    Documents,  \* (bound)
    Valid,      \* how long a fetched price holds: 4 in the code
    Times,      \* (bound)
    Begun,      \* operations begun (bound)
    Deaths,     \* (bound)
    None

\* What the constants are (assumed where the module is instantiated).
PricesAssumption ==
    /\ {Documents, Valid, Times, Begun, Deaths} \subseteq Nat
    /\ Listing \subseteq 1..Documents /\ None \notin Processes \cup {"dead"}
    /\ \A r \in Rows : {r.since, r.to} \subseteq Nat /\ r.since < r.to

VARIABLE v

vars == v

Tables == {r.table : r \in Rows}
Scopes == {r.scope : r \in Rows} \cup {Fetched}
RowsOf(t) == {r \in Rows : r.table = t}

\* What a priced request quotes.
Quotes == [row : Rows] \cup [document : 1..Documents] \cup {None}

TypeOK ==
    /\ v.active \cup v.retired \subseteq Rows
    /\ v.trust \subseteq Tables
    /\ v.manual \subseteq Scopes \X (0..Times)
    /\ v.official = None \/ v.official \in [document : 1..Documents, until : Nat]
    /\ v.status = None \/ v.status \in
           [fresh : BOOLEAN, document : 1..Documents \cup {None}, retry : Nat]
    /\ v.current \subseteq Processes
    /\ v.lease \in Processes \cup {None, "dead"}
    /\ {v.now, v.listed} \subseteq 0..Times /\ v.web \in 1..Documents
    /\ v.begun \in 0..Begun /\ v.deaths \in 0..Deaths

-----------------------------------------------------------------------------
(* The book *)

Overlap(r, s) == r.scope = s.scope /\ r.since < s.to /\ s.since < r.to

\* Rows overlap each other, or reach past the begin of a price set by hand.
Conflicts(rows, manual) ==
    \/ \E r \in rows : \E s \in rows \ {r} : Overlap(r, s)
    \/ \E r \in rows, m \in manual : r.scope = m[1] /\ r.to > m[2]

\* The price of a scope now: of a contract, else of the provider.
InForce(s) ==
    LET rows == {r \in v.active : r.scope = s /\ r.since <= v.now /\ v.now < r.to}
    IN IF rows # {} THEN [row |-> CHOOSE r \in rows : \A o \in rows : o.since <= r.since]
       ELSE IF s = Fetched /\ v.official # None /\ v.official.until > v.now
            THEN [document |-> v.official.document]
       ELSE None

\* An event about prices changes the revision: what anybody has read is out of date.
Append(w) == [w EXCEPT !.current = {}]

Step(p, op, step) == v.proc[p] # None /\ v.proc[p].op = op /\ v.proc[p].step = step
Become(p, state) == v' = [v EXCEPT !.proc[p] = state]
\* A process that begins reads the revision.
Begin(p, state) ==
    /\ v.proc[p] = None /\ v.begun < Begun
    /\ v' = [v EXCEPT !.proc[p] = state, !.begun = @ + 1, !.current = @ \cup {p}]
End(p) == v' = [v EXCEPT !.proc[p] = None, !.current = @ \ {p}]

-----------------------------------------------------------------------------
(* Events that need no knowledge *)

Trust(t) ==
    /\ t \notin v.trust
    /\ v' = Append([v EXCEPT !.trust = @ \cup {t}])

\* A price set by hand, from now on; the guard looks at the contracts.
RecordPrice(s) ==
    /\ v.begun < Begun
    /\ ~\E r \in v.active : r.scope = s /\ r.to > v.now
    /\ v' = Append([v EXCEPT !.manual = @ \cup {<<s, v.now>>}, !.begun = @ + 1])

-----------------------------------------------------------------------------
(* Import, replacement and revocation of a table *)

\* The revision is read first, the definitions come later, from the audit.
Looks(p, targets, t) ==
    Begin(p, [op |-> "revise", step |-> "report", targets |-> targets, table |-> t])

ImportLooks(p, t) == Looks(p, {}, t)
\* A batch, or a single row of it, is revoked (no table) or replaced by another table.
ReviseLooks(p, targets, t) ==
    /\ targets # {} /\ \E d \in Tables \ {t} : targets \subseteq RowsOf(d)
    /\ t # None /\ (\E d \in Tables : targets # RowsOf(d) /\ targets \subseteq RowsOf(d))
        => Cardinality(RowsOf(t)) = 1
    /\ Looks(p, targets, t)

New(t) == IF t = None THEN {} ELSE RowsOf(t)
Known == v.active \cup v.retired
SameScopes(targets, t) == {r.scope : r \in targets} = {r.scope : r \in New(t)}

\* What the definitions allow; with "migrate" the scopes may change.
Allowed(q, migrate) ==
    /\ q.table = None \/ ~Conflicts((v.active \ q.targets) \cup New(q.table), v.manual)
    /\ IF q.targets = {} THEN New(q.table) \cap v.retired = {} /\ ~(New(q.table) \subseteq v.active)
       ELSE /\ q.targets \subseteq v.active
            /\ New(q.table) \cap Known = {}
            /\ q.table = None \/ migrate \/ SameScopes(q.targets, q.table)

Reports(p) ==
    /\ Step(p, "revise", "report")
    /\ \E migrate \in BOOLEAN :
        IF Allowed(v.proc[p], migrate) THEN Become(p, [v.proc[p] EXCEPT !.step = "apply"])
        ELSE End(p)

\* Mutant of Guard: the revision is not compared.
GuardOfTrust(q, p) ==
    /\ q.table = None \/ q.table \in v.trust
    /\ q.targets = {} \/ q.targets \cap v.active # {}

\* The guard under the lock: nothing has changed, the source is trusted, the target is active.
Guard(q, p) ==
    /\ p \in v.current
    /\ q.table = None \/ q.table \in v.trust
    /\ q.targets = {} \/ q.targets \cap v.active # {}

Applies(p) ==
    /\ Step(p, "revise", "apply")
    /\ LET q == v.proc[p] IN
       IF Guard(q, p)
       THEN v' = Append([v EXCEPT !.active = (@ \ q.targets) \cup New(q.table),
                            !.retired = @ \cup q.targets, !.proc[p] = None])
       ELSE End(p)

-----------------------------------------------------------------------------
(* A reservation quotes a price *)

QuotesPrice(p, s) ==
    Begin(p, [op |-> "reserve", step |-> "append", scope |-> s,
              quote |-> InForce(s), tries |-> 1])

\* The guard under the lock; a changed book is read again, three times at most.  (`right' is only
\* looked at by QuoteIsCurrent.)
Unchanged(q, p) == p \in v.current /\ q.quote = InForce(q.scope)

Reserves(p) ==
    /\ Step(p, "reserve", "append")
    /\ LET q == v.proc[p] IN
       IF Unchanged(q, p)
       THEN Become(p, [op |-> "reserve", step |-> "reserved", right |-> q.quote = InForce(q.scope)])
       ELSE IF q.tries < 3
            THEN v' = [v EXCEPT !.current = @ \cup {p}, !.proc[p] =
                            [q EXCEPT !.quote = InForce(q.scope), !.tries = @ + 1]]
       ELSE End(p)

Requested(p) == Step(p, "reserve", "reserved") /\ End(p)

-----------------------------------------------------------------------------
(* Fetching the official price *)

\* A model that the last document listed has lost its price.
Missing == v.status # None /\ v.status.document \in Listing /\ v.official = None

\* A failure is waited out, also by force; a fresh price is kept unless by force.
MaySync(force) ==
    v.status # None => v.status.retry <= v.now \/ (v.status.fresh /\ (force \/ Missing))

Syncs(p, force) ==
    /\ MaySync(force)
    /\ Begin(p, [op |-> "sync", step |-> "lease", time |-> v.now, previous |-> v.status,
                 missing |-> Missing, got |-> None])

\* The lease is a file with the number of its process; that of a dead process is removed, in
\* a step of its own, and the lease tried again.
Leases(p) ==
    /\ Step(p, "sync", "lease")
    /\ CASE v.lease = None ->
              v' = [v EXCEPT !.lease = p, !.proc[p].step = "fetch"]
         [] v.lease = "dead" -> Become(p, [v.proc[p] EXCEPT !.step = "clear"])
         [] OTHER -> End(p)
Clears(p) ==
    /\ Step(p, "sync", "clear")
    /\ IF v.lease = None THEN End(p)
       ELSE v' = [v EXCEPT !.lease = None, !.proc[p].step = "lease"]

\* The number of an answer that the document is still the one asked about ("304").
Same == 0

\* The document, or Same; anything may fail.
Fetches(p) ==
    /\ Step(p, "sync", "fetch")
    /\ LET q == v.proc[p]
           asked == IF q.previous = None \/ q.missing THEN None ELSE q.previous.document
       IN \E got \in {None, IF asked = v.web THEN Same ELSE v.web} :
            Become(p, [q EXCEPT !.got = got, !.step = IF got = None THEN "fail" ELSE "define"])

\* The price that an answer defines: that of the document, or for Same the last one again.
Entry(got) ==
    IF got = Same THEN IF v.official = None THEN None ELSE v.official.document
    ELSE IF got \in Listing THEN got ELSE None

Defines(p) ==
    /\ Step(p, "sync", "define")
    /\ LET q == v.proc[p]
           d == Entry(q.got)
           next == [v EXCEPT !.proc[p].step = "done"]
       IN v' = IF d = None THEN next
               ELSE Append([next EXCEPT !.official = [document |-> d, until |-> q.time + Valid]])

Succeeds(p) ==
    /\ Step(p, "sync", "done")
    /\ LET q == v.proc[p]
           document == IF q.got = Same THEN q.previous.document ELSE q.got
       IN v' = Append([v EXCEPT !.status = [fresh |-> TRUE, document |-> document, retry |-> q.time + 1],
                                !.proc[p].step = "release"])
Fails(p) ==
    /\ Step(p, "sync", "fail")
    /\ LET q == v.proc[p]
           document == IF q.previous = None THEN None ELSE q.previous.document
       IN v' = Append([v EXCEPT !.status = [fresh |-> FALSE, document |-> document, retry |-> q.time + 1],
                                !.proc[p].step = "release"])
\* Whoever has the lease by now.
Releases(p) ==
    /\ Step(p, "sync", "release")
    /\ v' = [v EXCEPT !.lease = None, !.proc[p] = None, !.current = @ \ {p}]

-----------------------------------------------------------------------------

Dies(p) ==
    /\ v.proc[p] # None /\ v.deaths < Deaths
    /\ v' = [v EXCEPT !.proc[p] = None, !.current = @ \ {p}, !.deaths = @ + 1,
                      !.lease = IF @ = p THEN "dead" ELSE @]

\* `listed' is the last time at which the provider listed the model.
Tick ==
    /\ v.now < Times
    /\ v' = [v EXCEPT !.now = @ + 1, !.listed = IF v.web \in Listing THEN v.now + 1 ELSE @]
Publishes ==
    /\ v.web < Documents
    /\ v' = [v EXCEPT !.web = @ + 1, !.listed = IF v.web + 1 \in Listing THEN v.now ELSE @]

Init ==
    \E kind \in {"contract", "fetched"} :
    v = [kind |-> kind, active |-> {}, retired |-> {}, trust |-> {}, manual |-> {}, official |-> None,
         status |-> None, current |-> {}, lease |-> None, now |-> 0, web |-> 1, listed |-> 0,
         begun |-> 0, deaths |-> 0, proc |-> [p \in Processes |-> None]]

Contract(p) ==
    \/ \E t \in Tables : ImportLooks(p, t)
    \/ \E d \in Tables, t \in Tables \cup {None} :
        \E targets \in {RowsOf(d)} \cup {{r} : r \in RowsOf(d)} : ReviseLooks(p, targets, t)
    \/ Reports(p) \/ Applies(p)
Reservation(p) == (\E s \in Scopes : QuotesPrice(p, s)) \/ Reserves(p) \/ Requested(p)
Sync(p) ==
    \/ \E force \in BOOLEAN : Syncs(p, force)
    \/ Leases(p) \/ Clears(p) \/ Fetches(p) \/ Defines(p) \/ Succeeds(p) \/ Fails(p) \/ Releases(p)

Next ==
    \/ \E p \in Processes :
        \/ v.kind = "contract" /\ Contract(p)
        \/ v.kind = "fetched" /\ Sync(p)
        \/ Reservation(p) \/ Dies(p)
    \/ v.kind = "contract" /\ ((\E t \in Tables : Trust(t)) \/ \E s \in Scopes : RecordPrice(s))
    \/ v.kind = "fetched" /\ Publishes
    \/ Tick

Spec == Init /\ [][Next]_vars

-----------------------------------------------------------------------------

\* Whoever imports, replaces, revokes and sets prices at the same time, a scope has one contract
\* price at a time, none beside a price set by hand, all of them come from trusted tables, and
\* what was revoked or replaced is never a price again (session/PriceImport.ts).
BookIsSound ==
    /\ ~Conflicts(v.active, v.manual)
    /\ v.active \cap v.retired = {}
    /\ \A r \in v.active : r.table \in v.trust

\* A reservation is recorded with the price that is in force at that moment
\* (session/Budget.ts reservePricedRequest).
QuoteIsCurrent == \A p \in Processes : Step(p, "reserve", "reserved") => v.proc[p].right

\* What src/README.md:899 promises of a "304" (only a verified price is prolonged) and
\* src/README.md:897 of a fetched price: it is not kept for longer than that after the provider
\* has listed the model for the last time.
PriceIsListed == v.official # None => v.official.until <= v.listed + Valid

=============================================================================

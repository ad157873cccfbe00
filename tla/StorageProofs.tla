---------------------------- MODULE StorageProofs ----------------------------
(***************************************************************************)
(* Proofs about four parts of MCStorage: the commands (module Commands),   *)
(* the price book (module Prices), the budget (module Budget) and the      *)
(* archives (module Archives).  Of MCStorage's next-state relation each    *)
(* proof uses that the one part that was picked steps and the others stand *)
(* still.                                                                  *)
(***************************************************************************)
EXTENDS MCStorage, Integers, Sequences, TLAPS, SequenceTheorems

-----------------------------------------------------------------------------
(* Commands *)

\* The types of the commands and of who looks after them.
CommandRecords ==
    [life : 1..Starts, up : BOOLEAN, clear : BOOLEAN,
     cmd : [Commanded -> {None} \cup Commands!Command], todo : SUBSET Commanded,
     at : {None} \cup [c : Commanded, seen : {None, "open"}, step : {"lease", "wait"}]]

\* How far the supervisor of a command is, what is on record of it, and what
\* runs: nothing runs before the record is there, or after it says so.
InStep(x) ==
    /\ x.sup \in {"none", "boot", "saved", "spawn"} => x.tree = "none"
    /\ x.sup \in {"none", "boot"} => x.record = None
    /\ x.sup \in {"saved", "spawn", "run", "stopping"} => x.record = "open"
    /\ x.sup \in {"run", "stopping"} => x.tree # "none"
    /\ x.record = None => x.tree = "none"
    /\ x.record = "ended" => x.sup = "gone" /\ x.tree \notin Commands!Running
    /\ x.place # "active" => x.record = "ended"

\* Nothing of the command runs, and only a living owner could still start it.
Safe(x) == x.tree \notin Commands!Running /\ x.sup # "spawn"

\* A command of an earlier life.
Left(x) == x.life < command.life

EachInStep ==
    \A c \in Commanded : Commands!Known(c) =>
        InStep(command.cmd[c]) /\ command.cmd[c].life <= command.life

\* The recovery works off what it has found, and what it has passed is safe.
RecoveryIsExact ==
    /\ command.clear => command.todo = {}
    /\ ~command.up => ~command.clear /\ command.todo = {} /\ command.at = None
    /\ command.at # None => command.at.c \in command.todo
    /\ \A c \in command.todo : Commands!Known(c)
    /\ command.clear \/ command.todo # {} =>
        \A c \in Commanded \ command.todo :
            Commands!Known(c) /\ Left(command.cmd[c]) => Safe(command.cmd[c])
    /\ command.at # None =>
        (command.at.step = "lease" /\ command.at.seen = None /\ Left(command.cmd[command.at.c])
            => Safe(command.cmd[command.at.c]))

\* The inductive invariant of the commands.
CommandsInv == command \in CommandRecords /\ EachInStep /\ RecoveryIsExact

\* A tree only loses members, and a child that has closed its pipes never holds them again.
LEMMA TreeRemains ==
    ASSUME NEW t \in DOMAIN Commands!Remains, NEW u \in Commands!Remains[t]
    PROVE  /\ u \in {"running", "rootless", "loose", "gone"}
           /\ t \notin Commands!Running => u \notin Commands!Running
BY DEF Commands!Remains, Commands!Running

\* What is known of the commands and of one of them.
LEMMA CommandFacts ==
    ASSUME CommandsInv
    PROVE  /\ command.life \in 1..Starts /\ command.life \in Nat /\ command.up \in BOOLEAN
                /\ command.clear \in BOOLEAN
           /\ command.todo \subseteq Commanded
           /\ command.cmd \in [Commanded -> {None} \cup Commands!Command]
           /\ \A c \in Commanded : Commands!Known(c) => command.cmd[c] \in Commands!Command
           /\ command.at # None => command.at.c \in Commanded
BY DEF CommandsInv, CommandRecords, Commands!Known

\* One command goes from what it is to x, and stays safe if it was.
LEMMA OneCommand ==
    ASSUME CommandsInv, Commands!CommandsAssumption,
           NEW c \in Commanded, NEW x \in Commands!Command,
           command' = [command EXCEPT !.cmd[c] = x],
           InStep(x), x.life <= command.life,
           ~Left(x) \/ (Commands!Known(c) /\ command.cmd[c].life = x.life
                        /\ (Safe(command.cmd[c]) => Safe(x))),
           ~Commands!Known(c) => command.clear
    PROVE  CommandsInv'
<1>1. command \in CommandRecords /\ EachInStep /\ RecoveryIsExact
  BY DEF CommandsInv
<1>2. command' \in CommandRecords
  BY <1>1 DEF CommandRecords
<1>3. /\ command'.life = command.life /\ command'.up = command.up
      /\ command'.clear = command.clear /\ command'.todo = command.todo
      /\ command'.at = command.at
  BY <1>1 DEF CommandRecords
<1>4. command'.cmd = [command.cmd EXCEPT ![c] = x]
  BY <1>1 DEF CommandRecords
<1>5. command.cmd \in [Commanded -> {None} \cup Commands!Command]
  BY <1>1 DEF CommandRecords
<1>6. x # None
  BY DEF Commands!CommandsAssumption
<1>7. command'.cmd[c] = x /\ \A d \in Commanded \ {c} : command'.cmd[d] = command.cmd[d]
  BY <1>4, <1>5
<1>8. EachInStep'
  BY <1>1, <1>3, <1>7 DEF EachInStep, Commands!Known, InStep
<1>9. RecoveryIsExact'
  <2>1. \A d \in command.todo : Commands!Known(d)'
    BY <1>1, <1>6, <1>7, CommandFacts DEF RecoveryIsExact, Commands!Known
  <2>2. ASSUME command.clear \/ command.todo # {}, NEW d \in Commanded \ command.todo,
               Commands!Known(d)', Left(command.cmd[d])'
        PROVE  Safe(command.cmd[d])'
    <3>1. CASE d = c
      BY <1>1, <1>3, <1>7, <2>2, <3>1 DEF RecoveryIsExact, Left, Safe, Commands!Known
    <3>2. CASE d # c
      BY <1>1, <1>3, <1>7, <2>2, <3>2 DEF RecoveryIsExact, Left, Safe, Commands!Known
    <3> QED BY <3>1, <3>2
  <2>3. ASSUME command.at # None, command.at.step = "lease", command.at.seen = None,
               Left(command.cmd[command.at.c])'
        PROVE  Safe(command.cmd[command.at.c])'
    <3>1. command.at.c \in command.todo /\ command.at.c \in Commanded
          /\ Commands!Known(command.at.c)
      BY <1>1, <2>3, CommandFacts DEF RecoveryIsExact
    <3>2. command.todo # {} /\ ~command.clear
      BY <1>1, <3>1 DEF RecoveryIsExact
    <3>3. CASE command.at.c = c
      BY <1>1, <1>3, <1>7, <2>3, <3>1, <3>2, <3>3 DEF RecoveryIsExact, Left, Safe, Commands!Known
    <3>4. CASE command.at.c # c
      BY <1>1, <1>3, <1>7, <2>3, <3>1, <3>4 DEF RecoveryIsExact, Left, Safe, Commands!Known
    <3> QED BY <3>3, <3>4
  <2> QED BY <1>1, <1>3, <2>1, <2>2, <2>3 DEF RecoveryIsExact, Left, Safe, Commands!Known
<1> QED BY <1>2, <1>8, <1>9 DEF CommandsInv

\* What a step makes of one command: it stays known, of the same life, in step
\* and safe.
Keeps(x, y) ==
    /\ y \in Commands!Command
    /\ InStep(y) /\ y.life = x.life /\ (Left(x) /\ Safe(x) => Safe(y))

\* So a step that only changes one command keeps the invariant.
LEMMA KeptCommand ==
    ASSUME CommandsInv, Commands!CommandsAssumption,
           NEW c \in Commanded, Commands!Known(c),
           NEW y, Keeps(command.cmd[c], y), Commands!Set(c, y)
    PROVE  CommandsInv'
<1>1. y \in Commands!Command /\ InStep(y) /\ y.life = command.cmd[c].life
      /\ (Left(command.cmd[c]) /\ Safe(command.cmd[c]) => Safe(y))
  BY DEF Keeps
<1>2. command.cmd[c].life <= command.life
  BY DEF CommandsInv, EachInStep
<1>3. command' = [command EXCEPT !.cmd[c] = y]
  BY DEF Commands!Set
<1>4. ~Left(y) \/ (Commands!Known(c) /\ command.cmd[c].life = y.life
                   /\ (Safe(command.cmd[c]) => Safe(y)))
  BY <1>1 DEF Left
<1> QED BY <1>1, <1>2, <1>3, <1>4, OneCommand

\* What is known of one command.
LEMMA OneInStep ==
    ASSUME CommandsInv, NEW c \in Commanded, Commands!Known(c)
    PROVE  /\ command.cmd[c] \in Commands!Command /\ InStep(command.cmd[c])
           /\ command.cmd[c].life \in Nat /\ command.life \in Nat
           /\ command.cmd[c].life <= command.life
<1>1. command.cmd[c] \in Commands!Command
  BY CommandFacts
<1> QED BY <1>1, CommandFacts DEF CommandsInv, EachInStep, Commands!Command

\* The steps of the application that wants a command.
LEMMA ApplicationKeeps ==
    ASSUME CommandsInv, Commands!CommandsAssumption,
           NEW c \in Commanded, Commands!Application(c)
    PROVE  CommandsInv'
<1> DEFINE x == command.cmd[c]
<1>1. CASE Commands!Intends(c)
  <2> DEFINE y == [life |-> command.life, sup |-> "none", record |-> None, tree |-> "none",
                   cancel |-> FALSE, fresh |-> TRUE, place |-> "active", heard |-> FALSE]
  <2>1. y \in Commands!Command
    BY CommandFacts DEF Commands!Command
  <2>2. InStep(y) /\ y.life = command.life
    BY Commands!CommandsAssumption DEF InStep, Commands!CommandsAssumption
  <2>3. ~Left(y) /\ y.life <= command.life
    BY <2>2, CommandFacts DEF Left
  <2>4. command' = [command EXCEPT !.cmd[c] = y] /\ command.clear
    BY <1>1 DEF Commands!Intends, Commands!Set
  <2> HIDE DEF y
  <2> QED BY <2>1, <2>2, <2>3, <2>4, OneCommand
<1>2. CASE Commands!Own(c) /\ ~Commands!Intends(c)
  <2>1. Commands!Known(c)
    BY <1>2 DEF Commands!Own
  <2>2. x \in Commands!Command /\ InStep(x)
    BY <2>1, OneInStep
  <2>3. CASE Commands!Launches(c)
    <3>1. PICK y \in {[x EXCEPT !.sup = "boot"], [x EXCEPT !.heard = TRUE]} :
              Commands!Set(c, y)
      BY <2>3 DEF Commands!Launches
    <3>2. x.sup = "none"
      BY <2>3 DEF Commands!Launches
    <3>3. Keeps(x, y)
      BY <2>2, <3>1, <3>2 DEF Keeps, InStep, Safe, Left, Commands!Command, Commands!Running
    <3> HIDE DEF x
    <3> QED BY <2>1, <3>1, <3>3, KeptCommand DEF x
  <2>4. CASE Commands!Cancels(c)
    <3> DEFINE y == [x EXCEPT !.cancel = TRUE]
    <3>1. Commands!Set(c, y)
      BY <2>4 DEF Commands!Cancels
    <3>2. Keeps(x, y)
      BY <2>2 DEF Keeps, InStep, Safe, Left, Commands!Command, Commands!Running
    <3> HIDE DEF x, y
    <3> QED BY <2>1, <3>1, <3>2, KeptCommand DEF x
  <2>5. CASE Commands!Lapses(c) \/ Commands!Renews(c)
    <3>1. PICK b \in BOOLEAN : Commands!Set(c, [x EXCEPT !.fresh = b])
      BY <2>5 DEF Commands!Lapses, Commands!Renews
    <3> DEFINE y == [x EXCEPT !.fresh = b]
    <3>2. Keeps(x, y)
      BY <2>2 DEF Keeps, InStep, Safe, Left, Commands!Command, Commands!Running
    <3> HIDE DEF x, y
    <3> QED BY <2>1, <3>1, <3>2, KeptCommand DEF x, y
  <2>6. CASE Commands!Hears(c)
    <3> DEFINE h == [x EXCEPT !.heard = TRUE]
               y == IF h.record = "ended" THEN Commands!Archived(h)
                    ELSE [h EXCEPT !.record = "blocked"]
    <3>1. Commands!Set(c, y) /\ x.sup = "gone"
      BY <2>6 DEF Commands!Hears
    <3>2. h \in Commands!Command /\ InStep(h) /\ h.sup = "gone" /\ h.tree = x.tree
            /\ h.life = x.life
      BY <2>2, <3>1 DEF InStep, Commands!Command, Commands!Running
    <3> HIDE DEF h
    <3>3. Keeps(x, y)
      BY <3>1, <3>2 DEF Keeps, InStep, Safe, Left, Commands!Command, Commands!Running,
         Commands!Archived, Commands!CommandsAssumption
    <3> HIDE DEF x, y
    <3> QED BY <2>1, <3>1, <3>3, KeptCommand DEF x
  <2> QED BY <1>2, <2>3, <2>4, <2>5, <2>6 DEF Commands!Application
<1> QED BY <1>1, <1>2 DEF Commands!Application, Commands!Launches, Commands!Cancels,
           Commands!Lapses, Commands!Renews, Commands!Hears

\* The supervisor's steps, those of the processes it started and the cleaning.
LEMMA SupervisorKeeps ==
    ASSUME CommandsInv, Commands!CommandsAssumption, NEW c \in Commanded,
           Commands!Supervisor(c) \/ Commands!Exits(c) \/ Commands!Cleans(c)
    PROVE  CommandsInv'
<1> DEFINE x == command.cmd[c]
<1>1. Commands!Known(c)
  BY DEF Commands!Supervisor, Commands!Boots, Commands!Checks, Commands!Spawns, Commands!Watches,
         Commands!Closes, Commands!IsKilled, Commands!Exits, Commands!Cleans
<1>2. x \in Commands!Command /\ InStep(x)
  BY <1>1, OneInStep
<1>3. CASE Commands!Boots(c)
  <2> DEFINE y == [x EXCEPT !.sup = "saved", !.record = "open"]
  <2>1. Commands!Set(c, y) /\ x.sup = "boot"
    BY <1>3 DEF Commands!Boots
  <2>2. Keeps(x, y)
    BY <1>2, <2>1 DEF Keeps, InStep, Safe, Left, Commands!Command, Commands!Running,
       Commands!CommandsAssumption
  <2> HIDE DEF x, y
  <2> QED BY <1>1, <2>1, <2>2, KeptCommand DEF x
<1>4. ASSUME Commands!Set(c, Commands!Ended(x)), x.tree \notin Commands!Running
      PROVE  CommandsInv'
  <2> DEFINE y == Commands!Ended(x)
  <2>1. Keeps(x, y)
    BY <1>2, <1>4 DEF Keeps, InStep, Safe, Left, Commands!Command, Commands!Running,
       Commands!CommandsAssumption, Commands!Ended
  <2> HIDE DEF x, y
  <2> QED BY <1>1, <1>4, <2>1, KeptCommand DEF x, y
<1>5. CASE Commands!Checks(c)
  <2>1. x.sup = "saved" /\ x.tree \notin Commands!Running
    BY <1>2, <1>5 DEF Commands!Checks, InStep, Commands!Running
  <2>2. CASE x.cancel \/ ~Commands!OwnerAlive(c)
    BY <1>4, <1>5, <2>1, <2>2 DEF Commands!Checks
  <2>3. CASE ~(x.cancel \/ ~Commands!OwnerAlive(c))
    <3> DEFINE y == [x EXCEPT !.sup = "spawn"]
    <3>1. Commands!Set(c, y)
      BY <1>5, <2>3 DEF Commands!Checks
    <3>2. ~Left(x)
      BY <2>3, <1>1, OneInStep DEF Left, Commands!OwnerAlive, Commands!Own
    <3>3. Keeps(x, y)
      BY <1>2, <2>1, <3>2 DEF Keeps, InStep, Commands!Command, Commands!Running
    <3> HIDE DEF x, y
    <3> QED BY <1>1, <3>1, <3>3, KeptCommand DEF x
  <2> QED BY <2>2, <2>3
<1>6. CASE Commands!Spawns(c)
  <2>1. x.sup = "spawn" /\ x.tree \notin Commands!Running
    BY <1>2, <1>6 DEF Commands!Spawns, InStep, Commands!Running
  <2>2. CASE Commands!Set(c, [x EXCEPT !.sup = "run", !.tree = "running"])
    <3> DEFINE y == [x EXCEPT !.sup = "run", !.tree = "running"]
    <3>0. "running" \in DOMAIN Commands!Remains
      BY DEF Commands!Remains
    <3>1. Keeps(x, y)
      BY <1>2, <2>1, <3>0 DEF Keeps, InStep, Safe, Left, Commands!Command, Commands!Running,
         Commands!CommandsAssumption
    <3> HIDE DEF x, y
    <3> QED BY <1>1, <2>2, <3>1, KeptCommand DEF x, y
  <2> QED BY <1>4, <1>6, <2>1, <2>2 DEF Commands!Spawns
<1>7. CASE Commands!Watches(c)
  <2> DEFINE Ends(y) == \/ y = Commands!Blocked(x)
                        \/ \E tree \in Commands!Remains[x.tree] \ {"running"} :
                             y = [x EXCEPT !.sup = "stopping", !.tree = tree]
  <2>1. PICK y : Ends(y) /\ Commands!Set(c, y)
    BY <1>7 DEF Commands!Watches
  <2>2. x.sup = "run" /\ (x.cancel \/ ~Commands!OwnerAlive(c))
    BY <1>7 DEF Commands!Watches
  <2>3. Keeps(x, y)
    <3>1. x \in Commands!Command /\ InStep(x)
      BY <1>2
    <3>4. None \notin {"open", "ended", "blocked"}
      BY DEF Commands!CommandsAssumption
    <3> HIDE DEF x
    <3>2. CASE y = Commands!Blocked(x)
      <4>1. y \in Commands!Command
        BY <3>1, <3>2 DEF Commands!Command, Commands!Blocked
      <4>2. y.sup = "gone" /\ y.record = "blocked" /\ y.tree = x.tree /\ y.place = x.place
            /\ y.life = x.life
        BY <3>1, <3>2 DEF Commands!Command, Commands!Blocked
      <4> QED BY <2>2, <3>1, <3>4, <4>1, <4>2 DEF Keeps, InStep, Safe
    <3>3. CASE y # Commands!Blocked(x)
      <4>1. PICK tree \in Commands!Remains[x.tree] \ {"running"} :
              y = [x EXCEPT !.sup = "stopping", !.tree = tree]
        BY <2>1, <3>3
      <4>2. /\ tree \in {"rootless", "loose", "gone"}
            /\ x.tree \notin Commands!Running => tree \notin Commands!Running
        <5>1. x.tree \in DOMAIN Commands!Remains
          BY <2>2, <3>1 DEF InStep, Commands!Command
        <5> QED BY <4>1, <5>1, TreeRemains
      <4>3. y \in Commands!Command
        <5>1. tree \in DOMAIN Commands!Remains
          BY <4>2 DEF Commands!Remains
        <5> QED BY <3>1, <4>1, <5>1 DEF Commands!Command
      <4>4. y.sup = "stopping" /\ y.record = x.record /\ y.place = x.place /\ y.life = x.life
            /\ y.tree = tree
        BY <3>1, <4>1 DEF Commands!Command
      <4>5. InStep(y) /\ (Left(x) /\ Safe(x) => Safe(y))
        BY <2>2, <3>1, <3>4, <4>2, <4>4 DEF InStep, Safe
      <4> QED BY <4>3, <4>4, <4>5 DEF Keeps
    <3> QED BY <3>2, <3>3
  <2> HIDE DEF x
  <2> QED BY <1>1, <2>1, <2>3, KeptCommand DEF x
<1>8. CASE Commands!Closes(c)
  BY <1>4, <1>8 DEF Commands!Closes, Commands!Running
<1>9. CASE Commands!IsKilled(c)
  <2> DEFINE y == [x EXCEPT !.sup = "gone"]
  <2>1. Commands!Set(c, y) /\ x.sup \notin {"none", "gone"}
    BY <1>9 DEF Commands!IsKilled
  <2>2. Keeps(x, y)
    BY <1>2, <2>1 DEF Keeps, InStep, Safe, Left, Commands!Command, Commands!Running,
       Commands!CommandsAssumption
  <2> HIDE DEF x, y
  <2> QED BY <1>1, <2>1, <2>2, KeptCommand DEF x
<1>10. CASE Commands!Exits(c)
  <2>1. PICK tree \in Commands!Remains[x.tree] : Commands!Set(c, [x EXCEPT !.tree = tree])
    BY <1>10 DEF Commands!Exits
  <2>2. x.tree \in DOMAIN Commands!Remains
    BY <1>2, <1>10 DEF Commands!Exits, Commands!Command
  <2>3. /\ tree \in {"running", "rootless", "loose", "gone"}
        /\ x.tree \notin Commands!Running => tree \notin Commands!Running
    BY <2>1, <2>2, TreeRemains
  <2>4. tree \in DOMAIN Commands!Remains /\ tree # "none" /\ x.tree # "none"
    BY <1>10, <2>3 DEF Commands!Remains, Commands!Exits
  <2> DEFINE y == [x EXCEPT !.tree = tree]
  <2>5. y \in Commands!Command
    BY <1>2, <2>4 DEF Commands!Command
  <2>6. y.sup = x.sup /\ y.record = x.record /\ y.place = x.place /\ y.life = x.life
        /\ y.tree = tree
    BY <1>2 DEF Commands!Command
  <2>7. Keeps(x, y)
    BY <1>2, <2>3, <2>4, <2>5, <2>6 DEF Keeps, InStep, Safe
  <2> HIDE DEF x, y
  <2> QED BY <1>1, <2>1, <2>7, KeptCommand DEF x, y
<1>11. CASE Commands!Cleans(c)
  <2> DEFINE y == [x EXCEPT !.place = "removed"]
  <2>1. Commands!Set(c, y) /\ x.place = "completed"
    BY <1>11 DEF Commands!Cleans
  <2>2. Keeps(x, y)
    BY <1>2, <2>1 DEF Keeps, InStep, Safe, Left, Commands!Command, Commands!Running
  <2> HIDE DEF x, y
  <2> QED BY <1>1, <2>1, <2>2, KeptCommand DEF x
<1> QED BY <1>3, <1>5, <1>6, <1>7, <1>8, <1>9, <1>10, <1>11 DEF Commands!Supervisor

\* The application dies, or a new one begins.
LEMMA LivesKeep ==
    ASSUME CommandsInv, Commands!CommandsAssumption, Commands!Dies \/ Commands!Restarts
    PROVE  CommandsInv'
<1>1. command \in CommandRecords /\ EachInStep /\ RecoveryIsExact
  BY DEF CommandsInv
<1>2. CASE Commands!Dies
  <2>1. command' = [command EXCEPT !.up = FALSE, !.clear = FALSE, !.todo = {}, !.at = None]
    BY <1>2 DEF Commands!Dies
  <2>2. command' \in CommandRecords
    BY <1>1, <2>1 DEF CommandRecords
  <2>3. /\ command'.life = command.life /\ command'.cmd = command.cmd
        /\ command'.clear = FALSE /\ command'.todo = {} /\ command'.at = None
    BY <1>1, <2>1 DEF CommandRecords
  <2>4. EachInStep'
    BY <1>1, <2>3 DEF EachInStep, Commands!Known, InStep
  <2>5. RecoveryIsExact'
    BY <2>3 DEF RecoveryIsExact
  <2> QED BY <2>2, <2>4, <2>5 DEF CommandsInv
<1>3. CASE Commands!Restarts
  <2>1. ~command.up /\ command.life < Starts
        /\ command' = [command EXCEPT !.up = TRUE, !.life = @ + 1]
    BY <1>3 DEF Commands!Restarts
  <2>2. command.life \in 1..Starts /\ Starts \in Nat
    BY CommandFacts DEF Commands!CommandsAssumption
  <2>n. command.life + 1 \in 1..Starts
    BY <2>1, <2>2
  <2>u. command' = [command EXCEPT !.up = TRUE, !.life = command.life + 1]
    BY <1>1, <2>1 DEF CommandRecords
  <2>3. command' \in CommandRecords
    BY <1>1, <2>n, <2>u DEF CommandRecords
  <2>4. /\ command'.life = command.life + 1 /\ command'.cmd = command.cmd
        /\ command'.clear = command.clear /\ command'.todo = command.todo
        /\ command'.at = command.at /\ command'.up
    BY <1>1, <2>1 DEF CommandRecords
  <2>5. command.clear = FALSE /\ command.todo = {} /\ command.at = None
    BY <1>1, <2>1, CommandFacts DEF RecoveryIsExact
  <2>6. EachInStep'
    <3> SUFFICES ASSUME NEW c \in Commanded, Commands!Known(c)
                 PROVE  InStep(command.cmd[c]) /\ command.cmd[c].life <= command.life + 1
      BY <2>4 DEF EachInStep, Commands!Known, InStep
    <3> QED BY <1>1, OneInStep
  <2>7. RecoveryIsExact'
    BY <2>4, <2>5 DEF RecoveryIsExact
  <2> QED BY <2>3, <2>6, <2>7 DEF CommandsInv
<1> QED BY <1>2, <1>3

\* The recovery begins: it has all to do that has not been completed.
LEMMA BeginsKeeps ==
    ASSUME CommandsInv, Commands!Begins
    PROVE  CommandsInv'
<1> DEFINE left == {c \in Commanded : Commands!Known(c) /\ command.cmd[c].place = "active"}
<1>1. command \in CommandRecords /\ EachInStep /\ RecoveryIsExact
  BY DEF CommandsInv
<1>2. command' = [command EXCEPT !.todo = left, !.clear = (left = {})]
      /\ command.at = None /\ command.up
  BY DEF Commands!Begins
<1>3. (left = {}) \in BOOLEAN /\ left \subseteq Commanded
  OBVIOUS
<1>4. \A c \in Commanded \ left : Commands!Known(c) => command.cmd[c].place # "active"
  OBVIOUS
<1>5. \A c \in left : Commands!Known(c)
  OBVIOUS
<1> HIDE DEF left
<1>6. command' \in CommandRecords
  BY <1>1, <1>2, <1>3 DEF CommandRecords
<1>7. /\ command'.life = command.life /\ command'.cmd = command.cmd /\ command'.up = command.up
      /\ command'.clear = (left = {}) /\ command'.todo = left /\ command'.at = None
  BY <1>1, <1>2 DEF CommandRecords
<1>8. EachInStep'
  BY <1>1, <1>7 DEF EachInStep, Commands!Known, InStep
<1>9. \A c \in Commanded \ left : Commands!Known(c) => Safe(command.cmd[c])
  BY <1>1, <1>4 DEF EachInStep, InStep, Safe
<1>10. RecoveryIsExact'
  BY <1>2, <1>5, <1>7, <1>9 DEF RecoveryIsExact, Commands!Known, Safe, Left
<1> QED BY <1>6, <1>8, <1>10 DEF CommandsInv

\* The recovery gives up: nothing is to do, and nothing clear.
LEMMA FailsKeeps ==
    ASSUME CommandsInv, Commands!Fails, command.todo # {}
    PROVE  CommandsInv'
<1>1. command \in CommandRecords /\ EachInStep /\ RecoveryIsExact
  BY DEF CommandsInv
<1>2. command' = [command EXCEPT !.at = None, !.todo = {}]
  BY DEF Commands!Fails
<1>3. command' \in CommandRecords
  BY <1>1, <1>2 DEF CommandRecords
<1>4. /\ command'.life = command.life /\ command'.cmd = command.cmd /\ command'.up = command.up
      /\ command'.clear = command.clear /\ command'.todo = {} /\ command'.at = None
  BY <1>1, <1>2 DEF CommandRecords
<1>5. ~command.clear
  BY <1>1 DEF RecoveryIsExact
<1>6. EachInStep'
  BY <1>1, <1>4 DEF EachInStep, Commands!Known, InStep
<1>7. RecoveryIsExact'
  BY <1>4, <1>5 DEF RecoveryIsExact
<1> QED BY <1>3, <1>6, <1>7 DEF CommandsInv

\* The recovery passes a command, of which y remains.
LEMMA PassesKeeps ==
    ASSUME CommandsInv, Commands!CommandsAssumption, NEW c \in command.todo, NEW y,
           Commands!Passes(c, y), Keeps(command.cmd[c], y),
           Left(command.cmd[c]) => Safe(command.cmd[c])
    PROVE  CommandsInv'
<1>1. command \in CommandRecords /\ EachInStep /\ RecoveryIsExact
  BY DEF CommandsInv
<1>2. c \in Commanded /\ Commands!Known(c)
  BY <1>1, CommandFacts DEF RecoveryIsExact
<1>3. command' = [command EXCEPT !.cmd[c] = y, !.at = None, !.todo = @ \ {c},
                                 !.clear = (command.todo = {c})]
  BY DEF Commands!Passes
<1>4. y \in Commands!Command /\ InStep(y) /\ y.life = command.cmd[c].life
      /\ (Left(command.cmd[c]) => Safe(y)) /\ y # None
  BY DEF Keeps, Commands!CommandsAssumption
<1>5. (command.todo = {c}) \in BOOLEAN
  OBVIOUS
<1>6. command' \in CommandRecords
  BY <1>1, <1>2, <1>3, <1>4, <1>5 DEF CommandRecords
<1>7. /\ command'.life = command.life /\ command'.up = command.up
      /\ command'.clear = (command.todo = {c}) /\ command'.todo = command.todo \ {c}
      /\ command'.at = None /\ command'.cmd = [command.cmd EXCEPT ![c] = y]
  BY <1>1, <1>3 DEF CommandRecords
<1>8. command'.cmd[c] = y /\ \A d \in Commanded \ {c} : command'.cmd[d] = command.cmd[d]
  BY <1>2, <1>7, CommandFacts
<1>9. EachInStep'
  BY <1>1, <1>2, <1>4, <1>7, <1>8 DEF EachInStep, Commands!Known, InStep
<1>10. command.up /\ ~command.clear
  BY <1>1, CommandFacts DEF RecoveryIsExact
<1>11. \A d \in command.todo \ {c} : Commands!Known(d)'
  BY <1>1, <1>8, CommandFacts DEF RecoveryIsExact, Commands!Known
<1>12. ASSUME NEW d \in Commanded \ (command.todo \ {c}), Commands!Known(d)', Left(command.cmd[d])'
       PROVE  Safe(command.cmd[d])'
  BY <1>1, <1>4, <1>7, <1>8, <1>12 DEF RecoveryIsExact, Left, Safe, Commands!Known
<1>13. RecoveryIsExact'
  BY <1>7, <1>10, <1>11, <1>12 DEF RecoveryIsExact
<1> QED BY <1>6, <1>9, <1>13 DEF CommandsInv

\* The steps of the recovery.
LEMMA RecoveryKeeps ==
    ASSUME CommandsInv, Commands!CommandsAssumption, Commands!Recovery
    PROVE  CommandsInv'
<1>1. command \in CommandRecords /\ EachInStep /\ RecoveryIsExact
  BY DEF CommandsInv
<1>2. ASSUME NEW c \in command.todo
      PROVE  /\ c \in Commanded /\ Commands!Known(c)
             /\ command.cmd[c] \in Commands!Command /\ InStep(command.cmd[c])
  BY <1>1, CommandFacts, OneInStep DEF RecoveryIsExact
<1>3. CASE Commands!Begins
  BY <1>3, BeginsKeeps
<1>4. ASSUME NEW c \in Commanded, Commands!Picks(c) PROVE CommandsInv'
  <2> DEFINE x == command.cmd[c]
  <2>1. c \in command.todo /\ command.at = None
    BY <1>4 DEF Commands!Picks
  <2>2. Commands!Known(c) /\ x \in Commands!Command /\ InStep(x)
    BY <1>2, <2>1
  <2>3. CASE x.place # "active"
    <3>1. Commands!Passes(c, x)
      BY <1>4, <2>3 DEF Commands!Picks
    <3>2. Keeps(x, x) /\ Safe(x)
      BY <2>2, <2>3 DEF Keeps, InStep, Safe
    <3> HIDE DEF x
    <3> QED BY <2>1, <3>1, <3>2, PassesKeeps DEF x
  <2>4. CASE x.place = "active" /\ x.record = "ended"
    <3> DEFINE y == Commands!Archived(x)
    <3>1. Commands!Passes(c, y)
      BY <1>4, <2>4 DEF Commands!Picks
    <3>2. Keeps(x, y) /\ Safe(x)
      BY <2>2, <2>4 DEF Keeps, InStep, Safe, Commands!Archived, Commands!Command,
         Commands!Running
    <3> HIDE DEF x, y
    <3> QED BY <2>1, <3>1, <3>2, PassesKeeps DEF x
  <2>5. CASE x.place = "active" /\ (x.record = "blocked" \/ (x.record = "open" /\ x.sup = "gone"))
    <3>1. Commands!Fails
      BY <1>4, <2>5 DEF Commands!Picks
    <3> QED BY <2>1, <3>1, FailsKeeps
  <2>6. CASE /\ x.place = "active" /\ x.record # "ended"
             /\ ~(x.record = "blocked" \/ (x.record = "open" /\ x.sup = "gone"))
    <3> DEFINE a == [c |-> c, seen |-> x.record, step |-> "lease"]
    <3>1. command' = [command EXCEPT !.at = a]
      BY <1>4, <2>6 DEF Commands!Picks
    <3>2. a \in [c : Commanded, seen : {None, "open"}, step : {"lease", "wait"}]
          /\ a.c = c /\ a.seen = x.record /\ (x.record = None => Safe(x))
      BY <2>2, <2>6 DEF Commands!Command, InStep, Safe, Commands!Running,
         Commands!CommandsAssumption
    <3> HIDE DEF x, a
    <3>3. command' \in CommandRecords
      BY <1>1, <3>1, <3>2 DEF CommandRecords
    <3>4. /\ command'.life = command.life /\ command'.cmd = command.cmd
          /\ command'.up = command.up /\ command'.clear = command.clear
          /\ command'.todo = command.todo /\ command'.at = a
      BY <1>1, <3>1 DEF CommandRecords
    <3>5. EachInStep'
      BY <1>1, <3>4 DEF EachInStep, Commands!Known, InStep
    <3>6. RecoveryIsExact'
      BY <1>1, <2>1, <3>2, <3>4 DEF RecoveryIsExact, Commands!Known, Left, Safe, x
    <3> QED BY <3>3, <3>5, <3>6 DEF CommandsInv
  <2> QED BY <2>3, <2>4, <2>5, <2>6
<1>5. CASE Commands!Takes
  <2> DEFINE c == command.at.c
             x == command.cmd[c]
             y == [x EXCEPT !.cancel = TRUE]
  <2>1. command.at # None /\ command.at.step = "lease" /\ c \in command.todo
    BY <1>1, <1>5 DEF Commands!Takes, RecoveryIsExact
  <2>2. c \in Commanded /\ Commands!Known(c) /\ x \in Commands!Command /\ InStep(x)
    BY <1>2, <2>1
  <2>3. Keeps(x, x) /\ Keeps(x, y)
    BY <2>2 DEF Keeps, InStep, Safe, Left, Commands!Command
  <2>4. CASE Commands!OwnerAlive(c)
    <3>1. Commands!Passes(c, x)
      BY <1>5, <2>4 DEF Commands!Takes
    <3>2. ~Left(x)
      BY <2>2, <2>4, CommandFacts DEF Left, Commands!OwnerAlive, Commands!Own
    <3> HIDE DEF x, y, c
    <3> QED BY <2>1, <2>3, <3>1, <3>2, PassesKeeps DEF x
  <2>5. CASE ~Commands!OwnerAlive(c) /\ command.at.seen = None
    <3>1. Commands!Passes(c, y)
      BY <1>5, <2>5 DEF Commands!Takes
    <3>2. Left(x) => Safe(x)
      BY <1>1, <2>1, <2>5 DEF RecoveryIsExact
    <3> HIDE DEF x, y, c
    <3> QED BY <2>1, <2>3, <3>1, <3>2, PassesKeeps DEF x
  <2>6. CASE ~Commands!OwnerAlive(c) /\ command.at.seen # None
    <3>1. command' = [command EXCEPT !.cmd[c] = y, !.at.step = "wait"]
      BY <1>5, <2>6 DEF Commands!Takes
    <3> DEFINE a == [command.at EXCEPT !.step = "wait"]
    <3>2. command.at \in [c : Commanded, seen : {None, "open"}, step : {"lease", "wait"}]
      BY <1>1, <2>1 DEF CommandRecords
    <3>3. a \in [c : Commanded, seen : {None, "open"}, step : {"lease", "wait"}]
          /\ a.c = c /\ a.step = "wait"
      BY <3>2
    <3>4. command' = [command EXCEPT !.cmd = [command.cmd EXCEPT ![c] = y], !.at = a]
      BY <1>1, <3>1 DEF CommandRecords
    <3> HIDE DEF x, y, a, c
    <3>5. y \in Commands!Command /\ InStep(y) /\ y.life = x.life
          /\ (Left(x) /\ Safe(x) => Safe(y)) /\ y # None
      BY <2>3 DEF Keeps, Commands!CommandsAssumption
    <3>6. command' \in CommandRecords
      BY <1>1, <2>2, <3>3, <3>4, <3>5 DEF CommandRecords
    <3>7. /\ command'.life = command.life /\ command'.up = command.up
          /\ command'.clear = command.clear /\ command'.todo = command.todo
          /\ command'.at = a /\ command'.cmd = [command.cmd EXCEPT ![c] = y]
      BY <1>1, <3>4 DEF CommandRecords
    <3>8. command'.cmd[c] = y /\ \A d \in Commanded \ {c} : command'.cmd[d] = command.cmd[d]
      BY <2>2, <3>7, CommandFacts
    <3>9. EachInStep'
      BY <1>1, <2>2, <3>5, <3>7, <3>8 DEF EachInStep, Commands!Known, InStep, x
    <3>10. \A d \in command.todo : Commands!Known(d)'
      BY <1>1, <3>5, <3>8, CommandFacts DEF RecoveryIsExact, Commands!Known
    <3>11. \A d \in Commanded \ command.todo : command'.cmd[d] = command.cmd[d]
      BY <2>1, <3>8
    <3>12. RecoveryIsExact'
      BY <1>1, <2>1, <3>3, <3>7, <3>10, <3>11 DEF RecoveryIsExact, Commands!Known, Left, Safe
    <3> QED BY <3>6, <3>9, <3>12 DEF CommandsInv
  <2> QED BY <2>4, <2>5, <2>6
<1>6. CASE Commands!Waits
  <2> DEFINE c == command.at.c
             x == command.cmd[c]
             y == Commands!Archived(x)
  <2>1. command.at # None /\ c \in command.todo
    BY <1>1, <1>6 DEF Commands!Waits, RecoveryIsExact
  <2>2. x \in Commands!Command /\ InStep(x)
    BY <1>2, <2>1
  <2>3. CASE x.record = "ended" /\ Commands!Passes(c, y)
    <3>1. Keeps(x, y) /\ Safe(x)
      BY <2>2, <2>3 DEF Keeps, InStep, Safe, Commands!Archived, Commands!Command,
         Commands!Running
    <3> HIDE DEF x, y, c
    <3> QED BY <2>1, <2>3, <3>1, PassesKeeps DEF x
  <2>4. CASE Commands!Fails
    BY <2>1, <2>4, FailsKeeps
  <2> QED BY <1>6, <2>3, <2>4 DEF Commands!Waits
<1> QED BY <1>3, <1>4, <1>5, <1>6 DEF Commands!Recovery

\* The invariant holds before the first command.
LEMMA CommandsStart == Commands!Init /\ Commands!CommandsAssumption => CommandsInv
<1> SUFFICES ASSUME Commands!Init, Commands!CommandsAssumption PROVE CommandsInv
  OBVIOUS
<1>1. command = [life |-> 1, up |-> TRUE, clear |-> FALSE, cmd |-> [c \in Commanded |-> None],
                 todo |-> {}, at |-> None]
  BY DEF Commands!Init
<1>2. command \in CommandRecords
  BY <1>1 DEF CommandRecords, Commands!CommandsAssumption
<1>3. EachInStep /\ RecoveryIsExact
  BY <1>1 DEF EachInStep, RecoveryIsExact, Commands!Known
<1> QED BY <1>2, <1>3 DEF CommandsInv

\* Once the recovery of a life has returned, no command of an earlier life
\* runs, and none that is on record as ended (tools/processRecovery.ts,
\* tools/supervisor.ts): for any number of commands and of lives.
THEOREM NoOrphansTheorem == Spec => []NoOrphans
<1> DEFINE I == part = "commands" => CommandsInv
<1>0. Commands!CommandsAssumption
  BY StorageAssumption DEF StorageAssumption
<1>1. Init => I
  BY <1>0, CommandsStart DEF Init
<1>2. I /\ [Next]_vars => I'
  <2> SUFFICES ASSUME I, [Next]_vars, part' = "commands" PROVE CommandsInv'
    OBVIOUS
  <2>1. CASE Next
    <3>1. Commands!Next /\ CommandsInv
      BY <2>1 DEF Next
    <3> QED BY <1>0, <3>1, ApplicationKeeps, SupervisorKeeps, LivesKeep, RecoveryKeeps
            DEF Commands!Next
  <2>2. CASE UNCHANGED vars
    <3>1. CommandsInv /\ command' = command
      BY <2>2 DEF vars
    <3> QED BY <3>1 DEF CommandsInv, CommandRecords, EachInStep, RecoveryIsExact,
            Commands!Known, InStep, Left, Safe
  <2> QED BY <2>1, <2>2
<1>3. I => NoOrphans
  BY DEF NoOrphans, Commands!NoOrphans, CommandsInv, EachInStep, RecoveryIsExact, InStep, Safe, Left
<1> QED BY <1>1, <1>2, <1>3, PTL DEF Spec

-----------------------------------------------------------------------------
(* The price book *)

\* What a process is about, by its operation.
Revision(q) ==
    q = [op |-> "revise", step |-> q.step, targets |-> q.targets, table |-> q.table]
Reservation(q) ==
    \/ q = [op |-> "reserve", step |-> "append", scope |-> q.scope, quote |-> q.quote,
            tries |-> q.tries]
    \/ q = [op |-> "reserve", step |-> "reserved", right |-> q.right]
Fetching(q) ==
    q = [op |-> "sync", step |-> q.step, time |-> q.time, previous |-> q.previous,
         missing |-> q.missing, got |-> q.got]

\* The fields of the book, and its processes.
BookShape ==
    /\ book = [kind |-> book.kind, active |-> book.active, retired |-> book.retired,
               trust |-> book.trust, manual |-> book.manual, official |-> book.official,
               status |-> book.status, current |-> book.current, lease |-> book.lease,
               now |-> book.now, web |-> book.web, listed |-> book.listed, begun |-> book.begun,
               deaths |-> book.deaths, proc |-> book.proc]
    /\ book.proc = [p \in Clerks |-> book.proc[p]]

\* A process that is about to apply a revision, and has read the book as it is,
\* may do so; one that has reserved has quoted the price in force.
Entitled(p, q, current) ==
    q # None =>
        /\ Revision(q) \/ Reservation(q) \/ Fetching(q)
        /\ q.op = "revise" /\ q.step = "apply" /\ p \in current => Book!Allowed(q, TRUE)
        /\ q.op = "reserve" /\ q.step = "reserved" => q.right

\* The inductive invariant of the book.
BookInv ==
    /\ BookShape
    /\ Book!BookIsSound
    /\ \A p \in Clerks : Entitled(p, book.proc[p], book.current)

\* What a revision reads stays as it is.
BookKept ==
    /\ book'.active = book.active /\ book'.retired = book.retired
    /\ book'.trust = book.trust /\ book'.manual = book.manual

\* A step of one process that leaves what is read.
LEMMA OneProcess ==
    ASSUME BookInv, BookShape', BookKept, NEW p \in Clerks, NEW z,
           book'.proc = [book.proc EXCEPT ![p] = z],
           book'.current \subseteq book.current \cup {p},
           Entitled(p, z, book'.current)
    PROVE  BookInv'
<1>1. Book!BookIsSound'
  BY DEF BookInv, BookKept, Book!BookIsSound, Book!Conflicts, Book!Overlap
<1>2. ASSUME NEW q \in Clerks PROVE Entitled(q, book.proc[q], book.current)'
  <2>1. \A r : Book!Allowed(r, TRUE)' <=> Book!Allowed(r, TRUE)
    BY DEF BookKept, Book!Allowed, Book!Conflicts, Book!Overlap, Book!Known
  <2>2. book.proc = [r \in Clerks |-> book.proc[r]]
    BY DEF BookInv, BookShape
  <2>3. CASE q = p
    <3>1. book'.proc[q] = z
      BY <2>2, <2>3
    <3> QED BY <2>1, <2>3, <3>1 DEF Entitled, Revision, Reservation, Fetching
  <2>4. CASE q # p
    <3>1. book'.proc[q] = book.proc[q]
      BY <2>2, <2>4
    <3>2. Entitled(q, book.proc[q], book.current)
      BY DEF BookInv
    <3> QED BY <2>1, <2>4, <3>1, <3>2 DEF Entitled, Revision, Reservation, Fetching
  <2> QED BY <2>3, <2>4
<1> QED BY <1>1, <1>2 DEF BookInv

\* A process begins, steps or ends without an event.
LEMMA QuietProcess ==
    ASSUME BookInv, NEW p \in Clerks, NEW z, NEW C, NEW n,
           book' = [book EXCEPT !.proc[p] = z, !.begun = n, !.current = C],
           C \subseteq book.current \cup {p}, Entitled(p, z, C)
    PROVE  BookInv'
<1>1. BookShape
  BY DEF BookInv
<1>2. /\ book' = [kind |-> book.kind, active |-> book.active, retired |-> book.retired,
               trust |-> book.trust, manual |-> book.manual, official |-> book.official,
               status |-> book.status, current |-> C, lease |-> book.lease,
               now |-> book.now, web |-> book.web, listed |-> book.listed, begun |-> n,
               deaths |-> book.deaths, proc |-> [book.proc EXCEPT ![p] = z]]
  BY <1>1 DEF BookShape
<1>3. BookShape'
  BY <1>1, <1>2 DEF BookShape
<1>4. book'.proc = [book.proc EXCEPT ![p] = z] /\ book'.current = C /\ BookKept
  BY <1>2 DEF BookKept
<1> QED BY <1>3, <1>4, OneProcess

\* The same, when the number of what was begun stays.
LEMMA Becomes ==
    ASSUME BookInv, NEW p \in Clerks, NEW z, Book!Become(p, z), Entitled(p, z, book.current)
    PROVE  BookInv'
<1>1. BookShape /\ book' = [book EXCEPT !.proc[p] = z]
  BY DEF BookInv, Book!Become
<1>2. book' = [book EXCEPT !.proc[p] = z, !.begun = book.begun, !.current = book.current]
  BY <1>1 DEF BookShape
<1> QED BY <1>2, QuietProcess

LEMMA Ends ==
    ASSUME BookInv, NEW p \in Clerks, Book!End(p)
    PROVE  BookInv'
<1>1. BookShape /\ book' = [book EXCEPT !.proc[p] = None, !.current = @ \ {p}]
  BY DEF BookInv, Book!End
<1>2. book' = [book EXCEPT !.proc[p] = None, !.begun = book.begun,
                           !.current = book.current \ {p}]
  BY <1>1 DEF BookShape
<1>3. Entitled(p, None, book.current \ {p})
  BY DEF Entitled
<1>4. book.current \ {p} \subseteq book.current \cup {p}
  OBVIOUS
<1> QED BY <1>2, <1>3, <1>4, QuietProcess

LEMMA Begins ==
    ASSUME BookInv, NEW p \in Clerks, NEW z, Book!Begin(p, z),
           Entitled(p, z, book.current \cup {p})
    PROVE  BookInv'
<1>1. BookShape /\ book' = [book EXCEPT !.proc[p] = z, !.begun = @ + 1, !.current = @ \cup {p}]
  BY DEF BookInv, Book!Begin
<1>2. book' = [book EXCEPT !.proc[p] = z, !.begun = book.begun + 1,
                           !.current = book.current \cup {p}]
  BY <1>1 DEF BookShape
<1>3. book.current \cup {p} \subseteq book.current \cup {p}
  OBVIOUS
<1> QED BY <1>2, <1>3, QuietProcess

\* The steps of an import, a replacement or a revocation.
LEMMA ContractKeeps ==
    ASSUME BookInv, NEW p \in Clerks, Book!Contract(p)
    PROVE  BookInv'
<1> DEFINE q == book.proc[p]
<1>1. CASE \E targets, t : Book!Looks(p, targets, t)
  <2>1. PICK targets, t : Book!Looks(p, targets, t)
    BY <1>1
  <2> DEFINE z == [op |-> "revise", step |-> "report", targets |-> targets, table |-> t]
  <2>2. Book!Begin(p, z)
    BY <2>1 DEF Book!Looks
  <2>3. Entitled(p, z, book.current \cup {p})
    BY DEF Entitled, Revision
  <2> HIDE DEF z
  <2> QED BY <2>2, <2>3, Begins
<1>2. CASE Book!Reports(p)
  <2>1. q # None /\ q.op = "revise" /\ Revision(q)
    <3>1. q # None /\ q.op = "revise" /\ Entitled(p, q, book.current)
      BY <1>2 DEF BookInv, Book!Reports, Book!Step
    <3> QED BY <3>1 DEF Entitled, Reservation, Fetching
  <2>2. CASE Book!End(p)
    BY <2>2, Ends
  <2>3. CASE ~Book!End(p)
    <3> DEFINE z == [q EXCEPT !.step = "apply"]
    <3>1. PICK migrate \in BOOLEAN : Book!Allowed(q, migrate) /\ Book!Become(p, z)
      BY <1>2, <2>3 DEF Book!Reports
    <3>2. Book!Allowed(q, TRUE)
      BY <3>1 DEF Book!Allowed
    <3>3. /\ z.op = "revise" /\ z.targets = q.targets /\ z.table = q.table /\ Revision(z)
      BY <2>1 DEF Revision
    <3> HIDE DEF z, q
    <3>4. Book!Allowed(z, TRUE)
      BY <3>2, <3>3 DEF Book!Allowed
    <3>5. Entitled(p, z, book.current)
      BY <3>3, <3>4 DEF Entitled
    <3> QED BY <3>1, <3>5, Becomes
  <2> QED BY <2>2, <2>3
<1>3. CASE Book!Applies(p)
  <2>1. CASE Book!End(p)
    BY <2>1, Ends
  <2>2. CASE ~Book!End(p)
    <3> DEFINE rows == (book.active \ q.targets) \cup Book!New(q.table)
    <3>1. /\ Book!Guard(q, p) /\ q # None /\ q.op = "revise" /\ q.step = "apply"
          /\ book' = Book!Append([book EXCEPT !.active = (@ \ q.targets) \cup Book!New(q.table),
                               !.retired = @ \cup q.targets, !.proc[p] = None])
      BY <1>3, <2>2 DEF Book!Applies, Book!Step
    <3>2. Book!Allowed(q, TRUE)
      BY <3>1 DEF BookInv, Entitled, Book!Guard
    <3>3. BookShape /\ Book!BookIsSound
      BY DEF BookInv
    <3>4. book' = [kind |-> book.kind, active |-> rows, retired |-> book.retired \cup q.targets,
               trust |-> book.trust, manual |-> book.manual, official |-> book.official,
               status |-> book.status, current |-> {}, lease |-> book.lease,
               now |-> book.now, web |-> book.web, listed |-> book.listed, begun |-> book.begun,
               deaths |-> book.deaths, proc |-> [book.proc EXCEPT ![p] = None]]
      BY <3>1, <3>3 DEF BookShape, Book!Append
    <3>5. \A r \in Book!New(q.table) : r.table \in book.trust
      BY <3>1 DEF Book!Guard, Book!New, Book!RowsOf
    <3> HIDE DEF q
    <3>6. ~Book!Conflicts(rows, book.manual)
      <4>1. CASE q.table # None
        BY <3>2, <4>1 DEF Book!Allowed
      <4>2. CASE q.table = None
        BY <3>3, <4>2 DEF Book!New, Book!BookIsSound, Book!Conflicts
      <4> QED BY <4>1, <4>2
    <3>7. rows \cap (book.retired \cup q.targets) = {}
      <4>1. CASE q.targets = {}
        BY <3>2, <3>3, <4>1 DEF Book!Allowed, Book!BookIsSound
      <4>2. CASE q.targets # {}
        BY <3>2, <3>3, <4>2 DEF Book!Allowed, Book!BookIsSound, Book!Known
      <4> QED BY <4>1, <4>2
    <3>8. \A r \in rows : r.table \in book.trust
      BY <3>3, <3>5 DEF Book!BookIsSound
    <3> HIDE DEF rows
    <3>9. /\ book'.active = rows /\ book'.retired = book.retired \cup q.targets
          /\ book'.trust = book.trust /\ book'.manual = book.manual
          /\ book'.current = {} /\ book'.proc = [book.proc EXCEPT ![p] = None]
      BY <3>4
    <3>10. BookShape'
      BY <3>3, <3>4 DEF BookShape
    <3>11. Book!BookIsSound'
      BY <3>6, <3>7, <3>8, <3>9 DEF Book!BookIsSound, Book!Conflicts, Book!Overlap
    <3>12. ASSUME NEW r \in Clerks PROVE Entitled(r, book.proc[r], book.current)'
      <4>1. book'.proc[r] = None \/ book'.proc[r] = book.proc[r]
        BY <3>3, <3>9 DEF BookShape
      <4>2. CASE book'.proc[r] = None
        BY <4>2 DEF Entitled
      <4>3. CASE book'.proc[r] = book.proc[r]
        <5>1. Entitled(r, book.proc[r], book.current)
          BY DEF BookInv
        <5>2. \A s : Entitled(r, s, book.current) => Entitled(r, s, {})'
          BY DEF Entitled, Revision, Reservation, Fetching
        <5> QED BY <3>9, <4>3, <5>1, <5>2
      <4> QED BY <4>1, <4>2, <4>3
    <3> QED BY <3>10, <3>11, <3>12 DEF BookInv
  <2> QED BY <2>1, <2>2
<1> QED BY <1>1, <1>2, <1>3 DEF Book!Contract, Book!ImportLooks, Book!ReviseLooks

\* A reservation reads the book again.
LEMMA ReservationAgain ==
    ASSUME NEW q, NEW o, NEW n,
           q = [op |-> "reserve", step |-> "append", scope |-> q.scope, quote |-> q.quote,
                tries |-> q.tries]
    PROVE  LET z == [q EXCEPT !.quote = o, !.tries = n]
           IN z.op = "reserve" /\ z.step = "append" /\ Reservation(z)
<1> DEFINE y == [q EXCEPT !.quote = o]
           z == [y EXCEPT !.tries = n]
<1>1. y = [op |-> "reserve", step |-> "append", scope |-> q.scope, quote |-> o, tries |-> q.tries]
  OBVIOUS
<1>2. [q EXCEPT !.quote = o, !.tries = n] = z
  OBVIOUS
<1> HIDE DEF y
<1>3. z = [op |-> "reserve", step |-> "append", scope |-> q.scope, quote |-> o, tries |-> n]
  BY <1>1
<1> HIDE DEF z
<1>4. z.op = "reserve" /\ z.step = "append" /\ Reservation(z)
  BY <1>3 DEF Reservation
<1> QED BY <1>2, <1>4

\* The steps of a reservation.
LEMMA ReservationKeeps ==
    ASSUME BookInv, NEW p \in Clerks, Book!Reservation(p)
    PROVE  BookInv'
<1> DEFINE q == book.proc[p]
<1>1. CASE \E s : Book!QuotesPrice(p, s)
  <2>1. PICK s : Book!QuotesPrice(p, s)
    BY <1>1
  <2> DEFINE z == [op |-> "reserve", step |-> "append", scope |-> s,
                   quote |-> Book!InForce(s), tries |-> 1]
  <2>2. Book!Begin(p, z)
    BY <2>1 DEF Book!QuotesPrice
  <2>3. Entitled(p, z, book.current \cup {p})
    BY DEF Entitled, Reservation
  <2> HIDE DEF z
  <2> QED BY <2>2, <2>3, Begins
<1>2. CASE Book!Reserves(p)
  <2>1. q # None /\ q.op = "reserve" /\ q.step = "append"
    BY <1>2 DEF Book!Reserves, Book!Step
  <2>2. q = [op |-> "reserve", step |-> "append", scope |-> q.scope, quote |-> q.quote,
             tries |-> q.tries]
    <3>1. Entitled(p, q, book.current)
      BY DEF BookInv
    <3> HIDE DEF q
    <3> QED BY <2>1, <3>1 DEF Entitled, Revision, Reservation, Fetching
  <2>3. CASE Book!Unchanged(q, p)
    <3> DEFINE z == [op |-> "reserve", step |-> "reserved",
                     right |-> q.quote = Book!InForce(q.scope)]
    <3>1. Book!Become(p, z)
      BY <1>2, <2>3 DEF Book!Reserves
    <3>2. q.quote = Book!InForce(q.scope)
      BY <2>3 DEF Book!Unchanged
    <3>3. Entitled(p, z, book.current)
      BY <3>2 DEF Entitled, Reservation
    <3> HIDE DEF z
    <3> QED BY <3>1, <3>3, Becomes
  <2>4. CASE ~Book!Unchanged(q, p) /\ q.tries < 3
    <3> DEFINE z == [q EXCEPT !.quote = Book!InForce(q.scope), !.tries = @ + 1]
               C == book.current \cup {p}
    <3>1. book' = [book EXCEPT !.current = @ \cup {p}, !.proc[p] = z]
      BY <1>2, <2>4 DEF Book!Reserves
    <3>2. z.op = "reserve" /\ z.step = "append" /\ Reservation(z)
      <4> DEFINE o == Book!InForce(q.scope)
                 n == q.tries + 1
      <4>1. z = [q EXCEPT !.quote = o, !.tries = n]
        OBVIOUS
      <4> HIDE DEF q, o, n, z
      <4> QED BY <2>2, <4>1, ReservationAgain
    <3> HIDE DEF z
    <3>3. Entitled(p, z, C)
      BY <3>2 DEF Entitled
    <3>4. book' = [book EXCEPT !.proc[p] = z, !.begun = book.begun, !.current = C]
      BY <3>1 DEF BookInv, BookShape
    <3>5. C \subseteq book.current \cup {p}
      OBVIOUS
    <3> HIDE DEF C
    <3> QED BY <3>3, <3>4, <3>5, QuietProcess
  <2>5. CASE Book!End(p)
    BY <2>5, Ends
  <2> QED BY <1>2, <2>3, <2>4, <2>5 DEF Book!Reserves
<1>3. CASE Book!Requested(p)
  BY <1>3, Ends DEF Book!Requested
<1> QED BY <1>1, <1>2, <1>3 DEF Book!Reservation

\* A process that fetches prices is entitled to nothing more.
LEMMA FetchingIsFree ==
    ASSUME NEW p, NEW z, NEW C, z = None \/ Fetching(z)
    PROVE  Entitled(p, z, C)
<1>1. CASE Fetching(z)
  <2>1. z.op = "sync"
    BY <1>1 DEF Fetching
  <2> QED BY <1>1, <2>1 DEF Entitled
<1>2. CASE z = None
  BY <1>2 DEF Entitled
<1> QED BY <1>1, <1>2

\* A step that leaves what is read, and all processes but one that fetches, ends or stays.
LEMMA Fetches ==
    ASSUME BookInv, NEW p \in Clerks, NEW z, z = None \/ (Fetching(z)),
           BookShape', BookKept, book'.proc = [book.proc EXCEPT ![p] = z],
           book'.current \subseteq book.current
    PROVE  BookInv'
<1>1. Entitled(p, z, book'.current)
  BY FetchingIsFree
<1>2. book'.current \subseteq book.current \cup {p}
  OBVIOUS
<1> QED BY <1>1, <1>2, OneProcess

\* A fetch has its answer.
LEMMA FetchingGot ==
    ASSUME NEW q, NEW s, NEW t, Fetching(q)
    PROVE  Fetching([q EXCEPT !.got = t, !.step = s])
<1> DEFINE y == [q EXCEPT !.got = t]
           z == [y EXCEPT !.step = s]
<1>1. y = [op |-> "sync", step |-> q.step, time |-> q.time, previous |-> q.previous,
           missing |-> q.missing, got |-> t]
  BY DEF Fetching
<1>2. [q EXCEPT !.got = t, !.step = s] = z
  OBVIOUS
<1> HIDE DEF y
<1>3. z = [op |-> "sync", step |-> s, time |-> q.time, previous |-> q.previous,
           missing |-> q.missing, got |-> t]
  BY <1>1
<1> HIDE DEF z
<1>4. Fetching(z)
  BY <1>3 DEF Fetching
<1> QED BY <1>2, <1>4

\* The steps of a fetch.
LEMMA SyncKeeps ==
    ASSUME BookInv, Book!PricesAssumption, NEW p \in Clerks, Book!Sync(p)
    PROVE  BookInv'
<1> DEFINE q == book.proc[p]
<1>0. BookShape
  BY DEF BookInv
<1>1. CASE \E force \in BOOLEAN : Book!Syncs(p, force)
  <2> DEFINE z == [op |-> "sync", step |-> "lease", time |-> book.now, previous |-> book.status,
                   missing |-> Book!Missing, got |-> None]
  <2>1. Book!Begin(p, z)
    BY <1>1 DEF Book!Syncs
  <2>2. Entitled(p, z, book.current \cup {p})
    BY DEF Entitled, Fetching
  <2> HIDE DEF z
  <2> QED BY <2>1, <2>2, Begins
<1>2. ASSUME q # None, q.op = "sync" PROVE Fetching(q)
  <2>1. Entitled(p, q, book.current)
    BY DEF BookInv
  <2> HIDE DEF q
  <2> QED BY <1>2, <2>1 DEF Entitled, Revision, Reservation, Fetching
<1>3. ASSUME Fetching(q), NEW s PROVE Fetching([q EXCEPT !.step = s])
  <2> HIDE DEF q
  <2> QED BY <1>3 DEF Fetching
<1>4. CASE Book!Leases(p)
  <2>1. Fetching(q)
    BY <1>2, <1>4 DEF Book!Leases, Book!Step
  <2>2. CASE book.lease = None
    <3> DEFINE z == [q EXCEPT !.step = "fetch"]
    <3>1. book' = [book EXCEPT !.lease = p, !.proc[p] = z]
      <4>1. book' = [book EXCEPT !.lease = p, !.proc[p].step = "fetch"]
        BY <1>4, <2>2 DEF Book!Leases, Book!PricesAssumption
      <4> QED BY <1>0, <4>1 DEF BookShape
    <3>2. Fetching(z)
      BY <1>3, <2>1
    <3> HIDE DEF z, q
    <3>3. BookShape' /\ BookKept /\ book'.proc = [book.proc EXCEPT ![p] = z]
          /\ book'.current = book.current
      BY <1>0, <3>1 DEF BookShape, BookKept
    <3> QED BY <3>2, <3>3, Fetches
  <2>3. CASE book.lease # None /\ book.lease = "dead"
    <3> DEFINE z == [q EXCEPT !.step = "clear"]
    <3>1. Book!Become(p, z)
      BY <1>4, <2>3 DEF Book!Leases
    <3>2. Fetching(z)
      BY <1>3, <2>1
    <3> HIDE DEF z, q
    <3>3. Entitled(p, z, book.current)
      BY <3>2, FetchingIsFree
    <3> QED BY <3>1, <3>3, Becomes
  <2>4. CASE book.lease # None /\ book.lease # "dead"
    BY <1>4, <2>4, Ends DEF Book!Leases
  <2> QED BY <2>2, <2>3, <2>4
<1>5. CASE Book!Clears(p)
  <2>1. Fetching(q)
    BY <1>2, <1>5 DEF Book!Clears, Book!Step
  <2>2. CASE book.lease = None
    BY <1>5, <2>2, Ends DEF Book!Clears
  <2>3. CASE book.lease # None
    <3> DEFINE z == [q EXCEPT !.step = "lease"]
    <3>1. book' = [book EXCEPT !.lease = None, !.proc[p] = z]
      BY <1>0, <1>5, <2>3 DEF Book!Clears, BookShape
    <3>2. Fetching(z)
      BY <1>3, <2>1
    <3> HIDE DEF z, q
    <3>3. BookShape' /\ BookKept /\ book'.proc = [book.proc EXCEPT ![p] = z]
          /\ book'.current = book.current
      BY <1>0, <3>1 DEF BookShape, BookKept
    <3> QED BY <3>2, <3>3, Fetches
  <2> QED BY <2>2, <2>3
<1>6. CASE Book!Fetches(p)
  <2>1. Fetching(q)
    BY <1>2, <1>6 DEF Book!Fetches, Book!Step
  <2>2. PICK got :
          Book!Become(p, [q EXCEPT !.got = got, !.step = IF got = None THEN "fail" ELSE "define"])
    BY <1>6 DEF Book!Fetches
  <2> DEFINE z == [q EXCEPT !.got = got, !.step = IF got = None THEN "fail" ELSE "define"]
  <2>3. Fetching(z)
    <3> DEFINE s == IF got = None THEN "fail" ELSE "define"
    <3> HIDE DEF q, s
    <3>1. Fetching([q EXCEPT !.got = got, !.step = s])
      BY <2>1, FetchingGot
    <3> QED BY <3>1 DEF s
  <2>4. Book!Become(p, z)
    BY <2>2
  <2> HIDE DEF z, q
  <2>5. Entitled(p, z, book.current)
    BY <2>3, FetchingIsFree
  <2> QED BY <2>4, <2>5, Becomes
<1>7. CASE Book!Defines(p)
  <2>1. Fetching(q)
    BY <1>2, <1>7 DEF Book!Defines, Book!Step
  <2> DEFINE z == [q EXCEPT !.step = "done"]
  <2>2. PICK o, C : C \subseteq book.current
                    /\ book' = [book EXCEPT !.proc[p] = z, !.official = o, !.current = C]
    <3>1. CASE Book!Entry(q.got) = None
      <4>1. book' = [book EXCEPT !.proc[p] = z]
        BY <1>0, <1>7, <3>1 DEF Book!Defines, BookShape
      <4> HIDE DEF z, q
      <4>2. book' = [book EXCEPT !.proc[p] = z, !.official = book.official,
                                 !.current = book.current]
        BY <1>0, <4>1 DEF BookShape
      <4> QED BY <4>2
    <3>2. CASE Book!Entry(q.got) # None
      <4> DEFINE o == [document |-> Book!Entry(q.got), until |-> q.time + Valid]
      <4>1. book' = [book EXCEPT !.proc[p] = z, !.official = o, !.current = {}]
        BY <1>0, <1>7, <3>2 DEF Book!Defines, Book!Append, BookShape
      <4> HIDE DEF z, q, o
      <4> QED BY <4>1
    <3> QED BY <3>1, <3>2
  <2>3. Fetching(z)
    BY <1>3, <2>1
  <2> HIDE DEF z, q
  <2>4. BookShape' /\ BookKept /\ book'.proc = [book.proc EXCEPT ![p] = z]
        /\ book'.current = C
    BY <1>0, <2>2 DEF BookShape, BookKept
  <2> QED BY <2>2, <2>3, <2>4, Fetches
<1>8. CASE Book!Succeeds(p) \/ Book!Fails(p)
  <2>1. Fetching(q)
    BY <1>2, <1>8 DEF Book!Succeeds, Book!Fails, Book!Step
  <2> DEFINE z == [q EXCEPT !.step = "release"]
  <2>2. PICK status : book' = [book EXCEPT !.status = status, !.proc[p] = z, !.current = {}]
    BY <1>0, <1>8 DEF Book!Succeeds, Book!Fails, Book!Append, BookShape
  <2>3. Fetching(z)
    BY <1>3, <2>1
  <2> HIDE DEF z, q
  <2>4. BookShape' /\ BookKept /\ book'.proc = [book.proc EXCEPT ![p] = z]
        /\ book'.current = {}
    BY <1>0, <2>2 DEF BookShape, BookKept
  <2> QED BY <2>3, <2>4, Fetches
<1>9. CASE Book!Releases(p)
  <2>1. book' = [book EXCEPT !.lease = None, !.proc[p] = None, !.current = @ \ {p}]
    BY <1>9 DEF Book!Releases
  <2>2. BookShape' /\ BookKept /\ book'.proc = [book.proc EXCEPT ![p] = None]
        /\ book'.current = book.current \ {p}
    BY <1>0, <2>1 DEF BookShape, BookKept
  <2> QED BY <2>2, Fetches
<1> QED BY <1>1, <1>4, <1>5, <1>6, <1>7, <1>8, <1>9 DEF Book!Sync

\* A process dies.
LEMMA DeathKeeps ==
    ASSUME BookInv, NEW p \in Clerks, Book!Dies(p)
    PROVE  BookInv'
<1>1. BookShape
  BY DEF BookInv
<1>2. PICK l : book' = [book EXCEPT !.proc[p] = None, !.current = @ \ {p}, !.deaths = @ + 1,
                                    !.lease = l]
  BY DEF Book!Dies
<1>3. BookShape' /\ BookKept /\ book'.proc = [book.proc EXCEPT ![p] = None]
      /\ book'.current = book.current \ {p}
  BY <1>1, <1>2 DEF BookShape, BookKept
<1> QED BY <1>3, Fetches

\* What happens without a process: a table is trusted, a price is set by hand, a
\* document is published, time passes.
LEMMA OthersKeep ==
    ASSUME BookInv,
           \/ \E t \in Book!Tables : Book!Trust(t)
           \/ \E s \in Book!Scopes : Book!RecordPrice(s)
           \/ Book!Publishes \/ Book!Tick
    PROVE  BookInv'
<1>1. BookShape /\ Book!BookIsSound
  BY DEF BookInv
<1>2. ASSUME BookShape', book'.proc = book.proc, Book!BookIsSound', book'.current = {}
      PROVE  BookInv'
  BY <1>2 DEF BookInv, Entitled, Revision, Reservation, Fetching
<1>3. ASSUME NEW t, Book!Trust(t) PROVE BookInv'
  <2>1. book' = [book EXCEPT !.trust = book.trust \cup {t}, !.current = {}]
    BY <1>1, <1>3 DEF Book!Trust, Book!Append, BookShape
  <2>2. /\ BookShape' /\ book'.proc = book.proc /\ book'.current = {}
        /\ book'.active = book.active /\ book'.retired = book.retired
        /\ book'.manual = book.manual /\ book'.trust = book.trust \cup {t}
    BY <1>1, <2>1 DEF BookShape
  <2>3. Book!BookIsSound'
    BY <1>1, <2>2 DEF Book!BookIsSound, Book!Conflicts, Book!Overlap
  <2> QED BY <1>2, <2>2, <2>3
<1>4. ASSUME NEW s, Book!RecordPrice(s) PROVE BookInv'
  <2> DEFINE m == <<s, book.now>>
  <2>1. /\ book' = [book EXCEPT !.manual = book.manual \cup {m}, !.begun = book.begun + 1,
                                !.current = {}]
        /\ ~\E r \in book.active : r.scope = s /\ r.to > book.now
    BY <1>1, <1>4 DEF Book!RecordPrice, Book!Append, BookShape
  <2>2. m[1] = s /\ m[2] = book.now
    OBVIOUS
  <2> HIDE DEF m
  <2>3. /\ BookShape' /\ book'.proc = book.proc /\ book'.current = {}
        /\ book'.active = book.active /\ book'.retired = book.retired
        /\ book'.manual = book.manual \cup {m} /\ book'.trust = book.trust
    BY <1>1, <2>1 DEF BookShape
  <2>4. ~Book!Conflicts(book.active, book.manual \cup {m})
    BY <1>1, <2>1, <2>2 DEF Book!BookIsSound, Book!Conflicts
  <2>5. Book!BookIsSound'
    BY <1>1, <2>3, <2>4 DEF Book!BookIsSound, Book!Conflicts, Book!Overlap
  <2> QED BY <1>2, <2>3, <2>5
<1>5. ASSUME BookShape', BookKept, book'.proc = book.proc, book'.current = book.current
      PROVE  BookInv'
  <2>1. Book!BookIsSound'
    BY <1>1, <1>5 DEF BookKept, Book!BookIsSound, Book!Conflicts, Book!Overlap
  <2>2. \A q : Book!Allowed(q, TRUE)' <=> Book!Allowed(q, TRUE)
    BY <1>5 DEF BookKept, Book!Allowed, Book!Conflicts, Book!Overlap, Book!Known
  <2>3. ASSUME NEW p \in Clerks PROVE Entitled(p, book.proc[p], book.current)'
    <3>1. Entitled(p, book.proc[p], book.current)
      BY DEF BookInv
    <3> QED BY <1>5, <2>2, <3>1 DEF Entitled, Revision, Reservation, Fetching
  <2> QED BY <1>5, <2>1, <2>3 DEF BookInv
<1>6. CASE Book!Publishes
  <2>1. PICK l : book' = [book EXCEPT !.web = @ + 1, !.listed = l]
    BY <1>6 DEF Book!Publishes
  <2>2. BookShape' /\ BookKept /\ book'.proc = book.proc /\ book'.current = book.current
    BY <1>1, <2>1 DEF BookShape, BookKept
  <2> QED BY <1>5, <2>2
<1>7. CASE Book!Tick
  <2>1. PICK l : book' = [book EXCEPT !.now = @ + 1, !.listed = l]
    BY <1>7 DEF Book!Tick
  <2>2. BookShape' /\ BookKept /\ book'.proc = book.proc /\ book'.current = book.current
    BY <1>1, <2>1 DEF BookShape, BookKept
  <2> QED BY <1>5, <2>2
<1> QED BY <1>3, <1>4, <1>6, <1>7

\* The invariant holds of an empty book.
LEMMA BookStarts == Book!Init => BookInv
<1> SUFFICES ASSUME Book!Init PROVE BookInv
  OBVIOUS
<1>1. PICK kind : book =
        [kind |-> kind, active |-> {}, retired |-> {}, trust |-> {}, manual |-> {},
         official |-> None, status |-> None, current |-> {}, lease |-> None, now |-> 0, web |-> 1,
         listed |-> 0, begun |-> 0, deaths |-> 0, proc |-> [p \in Clerks |-> None]]
  BY DEF Book!Init
<1>2. BookShape
  BY <1>1 DEF BookShape
<1>3. Book!BookIsSound
  BY <1>1 DEF Book!BookIsSound, Book!Conflicts
<1>4. \A p \in Clerks : Entitled(p, book.proc[p], book.current)
  BY <1>1 DEF Entitled
<1> QED BY <1>2, <1>3, <1>4 DEF BookInv

\* Every step of the book keeps the invariant.
LEMMA BookSteps ==
    ASSUME BookInv, Book!PricesAssumption, Book!Next
    PROVE  BookInv'
BY ContractKeeps, ReservationKeeps, SyncKeeps, DeathKeeps, OthersKeep DEF Book!Next

\* What the invariant says of the contracts and of the quotes.
LEMMA BookIsGood == BookInv => Book!BookIsSound /\ Book!QuoteIsCurrent
<1> SUFFICES ASSUME BookInv, NEW p \in Clerks, Book!Step(p, "reserve", "reserved")
             PROVE  book.proc[p].right
  BY DEF BookInv, Book!QuoteIsCurrent
<1> QED BY DEF BookInv, Entitled, Book!Step

-----------------------------------------------------------------------------
(* The budget *)

\* What is used is within the limits, and they within all that was ever allowed.
Within(a, added) ==
    \A k \in Budget!Keys : a.used[k] <= a.limits[k] /\ a.limits[k] <= Budget!Limits[k] + added

Account(a) ==
    /\ a = [used |-> a.used, limits |-> a.limits, pending |-> a.pending]
    /\ a.used \in [Budget!Keys -> Int] /\ a.limits \in [Budget!Keys -> Int]
Floor(f) == f \in [used : [Budget!Keys -> Int], limits : [Budget!Keys -> Int]]

\* The fields of the budget.
BudgetShape ==
    /\ budget = [j |-> budget.j, floor |-> budget.floor, backup |-> budget.backup,
                 step |-> budget.step, open |-> budget.open, due |-> budget.due,
                 added |-> budget.added, price |-> budget.price, up |-> budget.up,
                 life |-> budget.life]
    /\ budget.added \in Nat
    /\ budget.due \in [Budget!Keys -> Int]
    /\ \A r \in budget.open : r[2] \in Nat

\* What a reservation takes.
Requested(grant) == IF grant = {} THEN 0 ELSE 1
Reserved(grant) == IF grant = {} THEN 0 ELSE (CHOOSE r \in grant : TRUE)[2]

\* The floor file knows of all that is due; before there is one, nothing is.
FloorHolds ==
    /\ budget.floor = None =>
        /\ budget.open = {}
        /\ \A k \in Budget!Keys : budget.due[k] = 0 /\ budget.j.used[k] >= 0
        /\ budget.backup # None => \A k \in Budget!Keys : budget.backup.used[k] >= 0
    /\ budget.floor # None =>
        /\ Floor(budget.floor) /\ Within(budget.floor, budget.added)
        /\ \A k \in Budget!Keys : budget.due[k] <= budget.floor.used[k]

\* Between the journal and the floor file, the journal holds what is about to be due.
Quoted(s) ==
    /\ s = [kind |-> "quoted", size |-> s.size, talk |-> s.talk, price |-> s.price]
    /\ s.size \in Nat
Pays(s, j, due) ==
    /\ s = [kind |-> "reserved", grant |-> s.grant]
    /\ s.grant # {} => \E i, n : s.grant = {<<i, n>>} /\ n \in Nat
    /\ due["requests"] + Requested(s.grant) <= j.used["requests"]
    /\ due["tokens"] + Reserved(s.grant) <= j.used["tokens"]

StepPays ==
    budget.step # None =>
        budget.up /\ (Quoted(budget.step) \/ Pays(budget.step, budget.j, budget.due))

\* The inductive invariant of the budget.
BudgetInv ==
    /\ BudgetShape
    /\ Account(budget.j) /\ Within(budget.j, budget.added)
    /\ budget.backup # None => Account(budget.backup) /\ Within(budget.backup, budget.added)
    /\ FloorHolds /\ StepPays

\* An account from its parts.
LEMMA AccountIs ==
    ASSUME NEW u \in [Budget!Keys -> Int], NEW l \in [Budget!Keys -> Int], NEW P, NEW a,
           a = [used |-> u, limits |-> l, pending |-> P]
    PROVE  Account(a) /\ a.used = u /\ a.limits = l /\ a.pending = P
BY DEF Account

\* An account of which two parts change.
LEMMA AccountWith ==
    ASSUME NEW a, Account(a), NEW u, NEW P
    PROVE  [a EXCEPT !.used = u, !.pending = P] = [used |-> u, limits |-> a.limits, pending |-> P]
<1> DEFINE b == [a EXCEPT !.used = u]
<1>1. b = [used |-> u, limits |-> a.limits, pending |-> a.pending]
  BY DEF Account
<1>2. [a EXCEPT !.used = u, !.pending = P] = [b EXCEPT !.pending = P]
  OBVIOUS
<1> HIDE DEF b
<1> QED BY <1>1, <1>2

LEMMA PlusIs ==
    ASSUME NEW f \in [Budget!Keys -> Int], NEW a \in Int, NEW b \in Int
    PROVE  /\ Budget!Plus(f, a, b) \in [Budget!Keys -> Int]
           /\ Budget!Plus(f, a, b)["requests"] = f["requests"] + a
           /\ Budget!Plus(f, a, b)["tokens"] = f["tokens"] + b
BY DEF Budget!Plus, Budget!Keys

\* The limits at the start are numbers.
LEMMA LimitsAre ==
    ASSUME Budget!BudgetAssumption
    PROVE  /\ Budget!Limits \in [Budget!Keys -> Nat] /\ Talk \in Nat
           /\ \A k \in Budget!Keys : Budget!Limits[k] \in Nat
BY DEF Budget!BudgetAssumption, Budget!Limits, Budget!Keys

\* The account of the journal covers what is due once it is no less than the floor.
LEMMA EnsuredCovers ==
    ASSUME BudgetInv, Budget!BudgetAssumption
    PROVE  /\ Account(Budget!Ensured(budget.j))
           /\ Within(Budget!Ensured(budget.j), budget.added)
           /\ \A k \in Budget!Keys : budget.due[k] <= Budget!Ensured(budget.j).used[k]
           /\ budget.floor = None => Budget!Ensured(budget.j) = budget.j
<1> DEFINE j == budget.j
           f == budget.floor
<1>1. /\ Account(j) /\ Within(j, budget.added) /\ FloorHolds
      /\ budget.due \in [Budget!Keys -> Int] /\ budget.added \in Nat
  BY DEF BudgetInv, BudgetShape
<1>2. \A k \in Budget!Keys : Budget!Limits[k] \in Nat
  BY LimitsAre
<1>3. CASE f = None
  <2>1. Budget!Ensured(j) = j
    BY <1>3 DEF Budget!Ensured
  <2>2. \A k \in Budget!Keys : budget.due[k] <= j.used[k]
    BY <1>1, <1>3 DEF FloorHolds, Account
  <2> QED BY <1>1, <2>1, <2>2
<1>4. CASE f # None
  <2>1. /\ f.used \in [Budget!Keys -> Int] /\ f.limits \in [Budget!Keys -> Int]
        /\ Within(f, budget.added)
        /\ \A k \in Budget!Keys : budget.due[k] <= f.used[k]
    BY <1>1, <1>4 DEF FloorHolds, Floor
  <2>2. j.used \in [Budget!Keys -> Int] /\ j.limits \in [Budget!Keys -> Int]
    BY <1>1 DEF Account
  <2>3. CASE \A k \in Budget!Keys : f.used[k] <= j.used[k]
    <3>1. Budget!Ensured(j) = j
      BY <2>3 DEF Budget!Ensured
    <3>2. \A k \in Budget!Keys : budget.due[k] <= j.used[k]
      BY <1>1, <2>1, <2>2, <2>3
    <3> QED BY <1>1, <1>4, <3>1, <3>2
  <2>4. CASE ~\A k \in Budget!Keys : f.used[k] <= j.used[k]
    <3> DEFINE u == Budget!Larger(j.used, f.used)
               l == Budget!Larger(j.limits, f.limits)
               e == [used |-> u, limits |-> l, pending |-> {}]
    <3>1. Budget!Ensured(j) = e
      BY <1>4, <2>4 DEF Budget!Ensured
    <3>2. u \in [Budget!Keys -> Int] /\ l \in [Budget!Keys -> Int]
      BY <2>1, <2>2 DEF Budget!Larger
    <3>3. \A k \in Budget!Keys :
            /\ u[k] = (IF j.used[k] >= f.used[k] THEN j.used[k] ELSE f.used[k])
            /\ l[k] = (IF j.limits[k] >= f.limits[k] THEN j.limits[k] ELSE f.limits[k])
      BY DEF Budget!Larger
    <3> HIDE DEF u, l
    <3>4. Account(e) /\ e.used = u /\ e.limits = l
      BY <3>2, AccountIs
    <3> HIDE DEF e
    <3>5. ASSUME NEW k \in Budget!Keys
          PROVE  /\ u[k] <= l[k] /\ l[k] <= Budget!Limits[k] + budget.added
                 /\ budget.due[k] <= u[k]
      <4>1. /\ j.used[k] \in Int /\ f.used[k] \in Int /\ j.limits[k] \in Int
            /\ f.limits[k] \in Int /\ budget.due[k] \in Int /\ Budget!Limits[k] \in Nat
            /\ budget.added \in Nat
        BY <1>1, <1>2, <2>1, <2>2
      <4>2. /\ j.used[k] <= j.limits[k] /\ j.limits[k] <= Budget!Limits[k] + budget.added
            /\ f.used[k] <= f.limits[k] /\ f.limits[k] <= Budget!Limits[k] + budget.added
            /\ budget.due[k] <= f.used[k]
        BY <1>1, <2>1 DEF Within
      <4> HIDE DEF j, f
      <4> QED BY <3>3, <4>1, <4>2
    <3>6. Within(e, budget.added)
      BY <3>4, <3>5 DEF Within
    <3> QED BY <1>4, <3>1, <3>4, <3>5, <3>6
  <2> QED BY <2>3, <2>4
<1> QED BY <1>3, <1>4

\* A step that writes no floor and no backup, and makes no more due.
LEMMA AccountKept ==
    ASSUME BudgetInv, Budget!BudgetAssumption, BudgetShape', StepPays',
           Account(budget'.j), Within(budget'.j, budget'.added),
           budget'.floor = budget.floor, budget'.backup = budget.backup,
           budget.added <= budget'.added, budget'.open \subseteq budget.open,
           \A k \in Budget!Keys : budget'.due[k] <= budget.due[k],
           budget.floor = None =>
               \A k \in Budget!Keys : /\ budget'.due[k] = budget.due[k]
                                      /\ budget'.j.used[k] >= budget.j.used[k]
    PROVE  BudgetInv'
<1>1. /\ budget.added \in Nat /\ budget'.added \in Nat
      /\ budget.due \in [Budget!Keys -> Int] /\ budget'.due \in [Budget!Keys -> Int]
      /\ Account(budget.j) /\ FloorHolds
      /\ budget.backup # None => Account(budget.backup) /\ Within(budget.backup, budget.added)
  BY DEF BudgetInv, BudgetShape
<1>2. \A k \in Budget!Keys : Budget!Limits[k] \in Nat
  BY LimitsAre
<1>3. ASSUME NEW a, a.limits \in [Budget!Keys -> Int], Within(a, budget.added)
      PROVE  Within(a, budget'.added)
  BY <1>1, <1>2, <1>3 DEF Within
<1>4. budget'.backup # None => Account(budget'.backup) /\ Within(budget'.backup, budget'.added)
  BY <1>1, <1>3 DEF Account
<1>5. CASE budget.floor = None
  <2>1. budget'.open = {}
    BY <1>1, <1>5 DEF FloorHolds
  <2>2. \A k \in Budget!Keys : budget'.due[k] = 0 /\ budget'.j.used[k] >= 0
    <3> TAKE k \in Budget!Keys
    <3>1. budget.j.used[k] \in Int /\ budget'.j.used[k] \in Int
      BY <1>1 DEF Account
    <3> QED BY <1>1, <1>5, <3>1 DEF FloorHolds
  <2>3. FloorHolds'
    BY <1>1, <1>5, <2>1, <2>2 DEF FloorHolds
  <2> QED BY <1>4, <2>3 DEF BudgetInv, Account, Within
<1>6. CASE budget.floor # None
  <2>1. Floor(budget.floor) /\ Within(budget.floor, budget.added)
    BY <1>1, <1>6 DEF FloorHolds
  <2>2. Within(budget.floor, budget'.added)
    BY <1>3, <2>1 DEF Floor
  <2>3. \A k \in Budget!Keys : budget'.due[k] <= budget.floor.used[k]
    <3> TAKE k \in Budget!Keys
    <3>1. budget.floor.used[k] \in Int /\ budget.due[k] \in Int /\ budget'.due[k] \in Int
      BY <1>1, <2>1 DEF Floor
    <3> QED BY <1>1, <1>6, <3>1 DEF FloorHolds
  <2>4. FloorHolds'
    BY <1>6, <2>1, <2>2, <2>3 DEF FloorHolds, Floor, Within
  <2> QED BY <1>4, <2>4 DEF BudgetInv, Account, Within
<1> QED BY <1>5, <1>6

\* A step after which the application is at s.
LEMMA PaysNow ==
    ASSUME NEW s, NEW j, NEW due, Pays(s, j, due),
           budget'.step = s, budget'.j = j, budget'.due = due, budget'.up
    PROVE  StepPays'
<1>1. Pays(budget'.step, budget'.j, budget'.due)
  OBVIOUS
<1> QED BY <1>1 DEF StepPays, Pays, Requested, Reserved

\* The application begins to reserve.
LEMMA QuotesKeeps ==
    ASSUME BudgetInv, Budget!BudgetAssumption, NEW n \in Sizes, NEW talk \in BOOLEAN,
           Budget!Quotes(n, talk)
    PROVE  BudgetInv'
<1> DEFINE s == [kind |-> "quoted", size |-> n, talk |-> talk, price |-> budget.price]
<1>1. BudgetShape /\ Account(budget.j) /\ Within(budget.j, budget.added)
  BY DEF BudgetInv
<1>2. budget' = [budget EXCEPT !.step = s] /\ budget.up
  BY DEF Budget!Quotes, Budget!Idle
<1>3. n \in Nat
  BY DEF Budget!BudgetAssumption
<1>4. Quoted(s)
  BY <1>3 DEF Quoted
<1> HIDE DEF s
<1>5. /\ BudgetShape' /\ budget'.j = budget.j /\ budget'.floor = budget.floor
      /\ budget'.backup = budget.backup /\ budget'.added = budget.added
      /\ budget'.open = budget.open /\ budget'.due = budget.due /\ budget'.step = s
      /\ budget'.up = budget.up
  BY <1>1, <1>2 DEF BudgetShape
<1>6. StepPays'
  BY <1>2, <1>4, <1>5 DEF StepPays, Quoted
<1>7. /\ budget.added <= budget'.added
      /\ \A k \in Budget!Keys : /\ budget'.due[k] <= budget.due[k]
                                /\ budget'.j.used[k] >= budget.j.used[k]
  BY <1>1, <1>5 DEF BudgetShape, Account
<1> QED BY <1>1, <1>5, <1>6, <1>7, AccountKept DEF Account, Within

\* The price changes, the application dies, or a new one begins.
LEMMA NothingDue ==
    ASSUME BudgetInv, Budget!BudgetAssumption,
           Budget!Reprices \/ Budget!Dies \/ Budget!Restarts
    PROVE  BudgetInv'
<1>1. /\ BudgetShape /\ Account(budget.j) /\ Within(budget.j, budget.added) /\ StepPays
  BY DEF BudgetInv
<1>2. /\ BudgetShape' /\ budget'.j = budget.j /\ budget'.floor = budget.floor
      /\ budget'.backup = budget.backup /\ budget'.added = budget.added
      /\ budget'.open \subseteq budget.open /\ budget'.due = budget.due
  BY <1>1 DEF BudgetShape, Budget!Reprices, Budget!Dies, Budget!Restarts
<1>3. budget'.step = None \/ (budget'.step = budget.step /\ budget'.up = budget.up)
      \/ (budget.step = budget'.step /\ ~budget.up)
  BY <1>1 DEF BudgetShape, Budget!Reprices, Budget!Dies, Budget!Restarts
<1>4. StepPays'
  BY <1>1, <1>2, <1>3 DEF StepPays, Quoted, Pays, Requested, Reserved
<1>5. /\ budget.added <= budget'.added
      /\ \A k \in Budget!Keys : budget'.due[k] <= budget.due[k]
      /\ budget.floor = None =>
               \A k \in Budget!Keys : /\ budget'.due[k] = budget.due[k]
                                      /\ budget'.j.used[k] >= budget.j.used[k]
  BY <1>1, <1>2 DEF BudgetShape, Account
<1>6. Account(budget'.j) /\ Within(budget'.j, budget'.added)
  BY <1>1, <1>2 DEF Account, Within
<1>7. /\ budget'.floor = budget.floor /\ budget'.backup = budget.backup
      /\ budget'.open \subseteq budget.open /\ BudgetShape'
  BY <1>2
<1> QED BY <1>4, <1>5, <1>6, <1>7, AccountKept

\* Limits are added.
LEMMA AddsKeeps ==
    ASSUME BudgetInv, Budget!BudgetAssumption, Budget!Adds
    PROVE  BudgetInv'
<1> DEFINE e == Budget!Ensured(budget.j)
           l == Budget!Plus(e.limits, 1, 1)
           j == [e EXCEPT !.limits = l]
           s == [kind |-> "reserved", grant |-> {}]
<1>1. BudgetShape /\ Account(budget.j)
  BY DEF BudgetInv
<1>2. Account(e) /\ Within(e, budget.added) /\ (budget.floor = None => e = budget.j)
      /\ \A k \in Budget!Keys : budget.due[k] <= e.used[k]
  BY EnsuredCovers
<1>3. budget' = [budget EXCEPT !.j = [e EXCEPT !.limits = Budget!Plus(@, 1, 1)], !.added = @ + 1,
                               !.step = s] /\ budget.up
  BY DEF Budget!Adds, Budget!Idle
<1> HIDE DEF e
<1>4. e.used \in [Budget!Keys -> Int] /\ e.limits \in [Budget!Keys -> Int]
  BY <1>2 DEF Account
<1>5. l \in [Budget!Keys -> Int] /\ l["requests"] = e.limits["requests"] + 1
      /\ l["tokens"] = e.limits["tokens"] + 1
  BY <1>4, PlusIs
<1>6. j = [used |-> e.used, limits |-> l, pending |-> e.pending]
  BY <1>2 DEF Account
<1>7. budget' = [budget EXCEPT !.j = j, !.added = budget.added + 1, !.step = s]
  BY <1>1, <1>2, <1>3 DEF BudgetShape, Account
<1> HIDE DEF l, j
<1>8. Account(j) /\ j.used = e.used /\ j.limits = l
  BY <1>4, <1>5, <1>6, AccountIs
<1>9. Within(j, budget.added + 1)
  <2>1. "requests" \in Budget!Keys /\ "tokens" \in Budget!Keys
        /\ \A k \in Budget!Keys : k = "requests" \/ k = "tokens"
    BY DEF Budget!Keys
  <2>2. \A k \in Budget!Keys : l[k] = e.limits[k] + 1
    BY <1>5, <2>1
  <2> QED BY <1>1, <1>2, <1>4, <1>8, <2>2, LimitsAre DEF Within, BudgetShape
<1> HIDE DEF s
<1>10. /\ BudgetShape' /\ budget'.j = j /\ budget'.floor = budget.floor
       /\ budget'.backup = budget.backup /\ budget'.added = budget.added + 1
       /\ budget'.open = budget.open /\ budget'.due = budget.due /\ budget'.step = s
       /\ budget'.up = budget.up
  <2>1. budget' = [j |-> j, floor |-> budget.floor, backup |-> budget.backup,
                 step |-> s, open |-> budget.open, due |-> budget.due,
                 added |-> budget.added + 1, price |-> budget.price, up |-> budget.up,
                 life |-> budget.life]
    BY <1>1, <1>7 DEF BudgetShape
  <2>2. budget.added + 1 \in Nat
    BY <1>1 DEF BudgetShape
  <2> QED BY <1>1, <2>1, <2>2 DEF BudgetShape
<1>11. Pays(s, j, budget.due)
  <2>1. Requested({}) = 0 /\ Reserved({}) = 0
    BY DEF Requested, Reserved
  <2>2. /\ budget.due["requests"] \in Int /\ budget.due["tokens"] \in Int
        /\ budget.due["requests"] <= e.used["requests"] /\ budget.due["tokens"] <= e.used["tokens"]
    BY <1>1, <1>2 DEF BudgetShape, Budget!Keys
  <2> QED BY <1>8, <2>1, <2>2 DEF Pays, s
<1>12. StepPays'
  BY <1>3, <1>10, <1>11, PaysNow
<1>13. /\ budget.added <= budget'.added
       /\ \A k \in Budget!Keys : budget'.due[k] <= budget.due[k]
       /\ budget.floor = None =>
               \A k \in Budget!Keys : /\ budget'.due[k] = budget.due[k]
                                      /\ budget'.j.used[k] >= budget.j.used[k]
  BY <1>1, <1>2, <1>8, <1>10 DEF BudgetShape, Account
<1>14. Account(budget'.j) /\ Within(budget'.j, budget'.added)
  BY <1>8, <1>9, <1>10 DEF Account, Within
<1>15. /\ budget'.floor = budget.floor /\ budget'.backup = budget.backup
       /\ budget'.open \subseteq budget.open /\ BudgetShape'
  BY <1>10
<1> QED BY <1>12, <1>13, <1>14, <1>15, AccountKept

\* A copy of the journal's account is kept, or, when nobody writes, put back.
LEMMA BackupKeeps ==
    ASSUME BudgetInv, Budget!BudgetAssumption, Budget!BacksUp \/ Budget!GoesBack
    PROVE  BudgetInv'
<1>1. /\ BudgetShape /\ Account(budget.j) /\ Within(budget.j, budget.added)
      /\ budget.backup # None => Account(budget.backup) /\ Within(budget.backup, budget.added)
      /\ FloorHolds /\ StepPays
  BY DEF BudgetInv
<1>2. CASE Budget!BacksUp
  <2>1. budget' = [budget EXCEPT !.backup = budget.j]
    BY <1>2 DEF Budget!BacksUp
  <2>2. /\ BudgetShape' /\ budget'.j = budget.j /\ budget'.floor = budget.floor
        /\ budget'.backup = budget.j /\ budget'.added = budget.added
        /\ budget'.open = budget.open /\ budget'.due = budget.due
        /\ budget'.step = budget.step /\ budget'.up = budget.up
    BY <1>1, <2>1 DEF BudgetShape
  <2>3. FloorHolds'
    BY <1>1, <2>2 DEF FloorHolds, Floor, Within
  <2>4. StepPays'
    BY <1>1, <2>2 DEF StepPays, Quoted, Pays, Requested, Reserved
  <2> QED BY <1>1, <2>2, <2>3, <2>4 DEF BudgetInv, Account, Within
<1>3. CASE Budget!GoesBack
  <2>1. budget' = [budget EXCEPT !.j = budget.backup] /\ ~budget.up /\ budget.backup # None
    BY <1>3 DEF Budget!GoesBack
  <2>2. /\ BudgetShape' /\ budget'.j = budget.backup /\ budget'.floor = budget.floor
        /\ budget'.backup = budget.backup /\ budget'.added = budget.added
        /\ budget'.open = budget.open /\ budget'.due = budget.due
        /\ budget'.step = budget.step /\ budget'.up = budget.up
    BY <1>1, <2>1 DEF BudgetShape
  <2>3. FloorHolds'
    BY <1>1, <2>1, <2>2 DEF FloorHolds, Floor, Within
  <2>4. StepPays'
    BY <1>1, <2>1, <2>2 DEF StepPays
  <2> QED BY <1>1, <2>1, <2>2, <2>3, <2>4 DEF BudgetInv, Account, Within
<1> QED BY <1>2, <1>3

\* The floor is written: what was reserved is due.
LEMMA PersistsKeeps ==
    ASSUME BudgetInv, Budget!BudgetAssumption, Budget!Persists
    PROVE  BudgetInv'
<1> DEFINE g == budget.step.grant
           f == [used |-> budget.j.used, limits |-> budget.j.limits]
           d == [k \in Budget!Keys |-> budget.due[k]
                    + (IF g = {} THEN 0 ELSE IF k = "requests" THEN 1
                       ELSE (CHOOSE r \in g : TRUE)[2])]
           o == budget.open \cup g
<1>1. /\ BudgetShape /\ Account(budget.j) /\ Within(budget.j, budget.added)
      /\ budget.backup # None => Account(budget.backup) /\ Within(budget.backup, budget.added)
      /\ FloorHolds /\ StepPays
  BY DEF BudgetInv
<1>2. budget.step # None /\ budget.step.kind = "reserved"
  BY DEF Budget!Persists
<1>3. Pays(budget.step, budget.j, budget.due)
  <2>1. Quoted(budget.step) => budget.step.kind = "quoted"
    BY DEF Quoted
  <2> QED BY <1>1, <1>2, <2>1 DEF StepPays
<1>4. /\ g # {} => \E i, n : g = {<<i, n>>} /\ n \in Nat
      /\ budget.due["requests"] + Requested(g) <= budget.j.used["requests"]
      /\ budget.due["tokens"] + Reserved(g) <= budget.j.used["tokens"]
  BY <1>3 DEF Pays
<1>5. /\ \A r \in g : r[2] \in Nat
      /\ g # {} => (CHOOSE r \in g : TRUE) \in g
  BY <1>4
<1>6. Requested(g) \in Nat /\ Reserved(g) \in Nat
  BY <1>5 DEF Requested, Reserved
<1>7. d = [k \in Budget!Keys |->
             budget.due[k] + (IF k = "requests" THEN Requested(g) ELSE Reserved(g))]
  BY DEF Requested, Reserved
<1>8. budget' = [budget EXCEPT !.floor = f, !.step = None, !.open = o, !.due = d]
  <2>1. budget' = [budget EXCEPT !.floor = f, !.step = None, !.open = @ \cup g,
                !.due = [k \in Budget!Keys |-> @[k] + (IF g = {} THEN 0
                                               ELSE IF k = "requests" THEN 1
                                               ELSE (CHOOSE r \in g : TRUE)[2])]]
    BY DEF Budget!Persists
  <2> QED BY <1>1, <2>1 DEF BudgetShape
<1> HIDE DEF d
<1>9. budget.due \in [Budget!Keys -> Int] /\ budget.added \in Nat
      /\ budget.j.used \in [Budget!Keys -> Int] /\ budget.j.limits \in [Budget!Keys -> Int]
  BY <1>1 DEF BudgetShape, Account
<1> HIDE DEF g
<1>10. d \in [Budget!Keys -> Int] /\ \A k \in Budget!Keys : d[k] <= budget.j.used[k]
  <2>1. \A k \in Budget!Keys : k = "requests" \/ k = "tokens"
    BY DEF Budget!Keys
  <2>2. ASSUME NEW k \in Budget!Keys PROVE d[k] \in Int /\ d[k] <= budget.j.used[k]
    <3>1. CASE k = "requests"
      BY <1>4, <1>6, <1>7, <1>9, <3>1
    <3>2. CASE k = "tokens"
      BY <1>4, <1>6, <1>7, <1>9, <3>2
    <3> QED BY <2>1, <3>1, <3>2
  <2> QED BY <1>7, <2>2
<1>11. \A r \in o : r[2] \in Nat
  BY <1>1, <1>5 DEF BudgetShape
<1>12. Floor(f) /\ Within(f, budget.added) /\ f.used = budget.j.used
  BY <1>1, <1>9 DEF Floor, Within
<1>13. f # None
  BY <1>12 DEF Floor, Budget!BudgetAssumption
<1> HIDE DEF f, o
<1>14. budget' = [j |-> budget.j, floor |-> f, backup |-> budget.backup, step |-> None,
                  open |-> o, due |-> d, added |-> budget.added, price |-> budget.price,
                  up |-> budget.up, life |-> budget.life]
  BY <1>1, <1>8 DEF BudgetShape
<1>15. BudgetShape'
  BY <1>9, <1>10, <1>11, <1>14 DEF BudgetShape
<1>16. /\ budget'.j = budget.j /\ budget'.floor = f /\ budget'.backup = budget.backup
       /\ budget'.added = budget.added /\ budget'.due = d /\ budget'.step = None
  BY <1>14
<1>17. FloorHolds'
  BY <1>10, <1>12, <1>13, <1>16 DEF FloorHolds, Floor, Within
<1>18. StepPays'
  BY <1>16 DEF StepPays
<1> QED BY <1>1, <1>15, <1>16, <1>17, <1>18 DEF BudgetInv, Account, Within

\* The answer to a request settles what it used.
LEMMA SettlesKeeps ==
    ASSUME BudgetInv, Budget!BudgetAssumption, NEW r \in budget.open, NEW n \in 0..Tokens,
           Budget!Settles(r, n)
    PROVE  BudgetInv'
<1> DEFINE e == Budget!Ensured(budget.j)
           saved == IF r \in e.pending THEN r[2] - n ELSE 0
           u == [e.used EXCEPT !["tokens"] = @ - saved]
           P == e.pending \ {r}
           j == [used |-> u, limits |-> e.limits, pending |-> P]
           d == [budget.due EXCEPT !["tokens"] = @ - (r[2] - n)]
           s == IF r \in e.pending THEN [kind |-> "reserved", grant |-> {}] ELSE None
           o == budget.open \ {r}
<1>1. BudgetShape /\ Account(budget.j) /\ FloorHolds
  BY DEF BudgetInv
<1>2. Account(e) /\ Within(e, budget.added) /\ (budget.floor = None => e = budget.j)
      /\ \A k \in Budget!Keys : budget.due[k] <= e.used[k]
  BY EnsuredCovers
<1>3. /\ budget' = [budget EXCEPT !.open = @ \ {r},
                      !.j = [e EXCEPT !.used["tokens"] = @ - saved, !.pending = @ \ {r}],
                      !.due["tokens"] = @ - (r[2] - n), !.step = s]
      /\ n <= r[2] /\ budget.up
  BY DEF Budget!Settles, Budget!Idle
<1>4. r[2] \in Nat /\ n \in Nat /\ budget.floor # None
  BY <1>1 DEF BudgetShape, FloorHolds, Budget!BudgetAssumption
<1>5. saved \in Nat /\ saved <= r[2] - n
  BY <1>3, <1>4
<1> HIDE DEF e, saved, s
<1>6. e.used \in [Budget!Keys -> Int] /\ e.limits \in [Budget!Keys -> Int]
      /\ budget.due \in [Budget!Keys -> Int]
  BY <1>1, <1>2 DEF Account, BudgetShape
<1>7. [e EXCEPT !.used["tokens"] = @ - saved, !.pending = @ \ {r}] = j
  <2>1. [e EXCEPT !.used["tokens"] = @ - saved, !.pending = @ \ {r}]
          = [e EXCEPT !.used = u, !.pending = P]
    OBVIOUS
  <2> HIDE DEF u, P
  <2> QED BY <1>2, <2>1, AccountWith
<1>8. budget' = [budget EXCEPT !.open = o, !.j = j, !.due = d, !.step = s]
  BY <1>1, <1>3, <1>7 DEF BudgetShape
<1>9. /\ \A k \in Budget!Keys : k = "requests" \/ k = "tokens"
      /\ "requests" \in Budget!Keys /\ "tokens" \in Budget!Keys
  BY DEF Budget!Keys
<1>10. /\ u \in [Budget!Keys -> Int] /\ d \in [Budget!Keys -> Int]
       /\ u["requests"] = e.used["requests"] /\ u["tokens"] = e.used["tokens"] - saved
       /\ d["requests"] = budget.due["requests"]
       /\ d["tokens"] = budget.due["tokens"] - (r[2] - n)
  BY <1>4, <1>5, <1>6, <1>9
<1> HIDE DEF u, d, P
<1>11. Account(j) /\ j.used = u /\ j.limits = e.limits
  BY <1>6, <1>10, AccountIs
<1> HIDE DEF j
<1>12. /\ \A k \in Budget!Keys : d[k] <= budget.due[k] /\ d[k] <= u[k] /\ u[k] <= e.used[k]
       /\ d["requests"] <= u["requests"] /\ d["tokens"] <= u["tokens"]
  <2> DEFINE x == r[2]
  <2>1. /\ budget.due["requests"] \in Int /\ budget.due["tokens"] \in Int
        /\ e.used["requests"] \in Int /\ e.used["tokens"] \in Int
        /\ budget.due["requests"] <= e.used["requests"]
        /\ budget.due["tokens"] <= e.used["tokens"] /\ x \in Nat /\ n <= x /\ saved <= x - n
        /\ d["tokens"] = budget.due["tokens"] - (x - n)
    BY <1>2, <1>3, <1>4, <1>5, <1>6, <1>9, <1>10
  <2> HIDE DEF x
  <2>2. d["requests"] <= budget.due["requests"] /\ d["requests"] <= u["requests"]
        /\ u["requests"] <= e.used["requests"]
    BY <1>10, <2>1
  <2>3. d["tokens"] <= budget.due["tokens"] /\ d["tokens"] <= u["tokens"]
        /\ u["tokens"] <= e.used["tokens"]
    BY <1>4, <1>5, <1>10, <2>1
  <2> QED BY <1>9, <2>2, <2>3
<1>13. Within(j, budget.added)
  <2> SUFFICES ASSUME NEW k \in Budget!Keys PROVE j.used[k] <= j.limits[k]
    BY <1>2, <1>11 DEF Within
  <2>1. u[k] \in Int /\ e.used[k] \in Int /\ e.limits[k] \in Int /\ e.used[k] <= e.limits[k]
    BY <1>2, <1>6, <1>10 DEF Within
  <2> QED BY <1>11, <1>12, <2>1
<1>14. s # None => Pays(s, j, d)
  <2>1. Requested({}) = 0 /\ Reserved({}) = 0
    BY DEF Requested, Reserved
  <2>2. s # None => s = [kind |-> "reserved", grant |-> {}]
    BY DEF s
  <2>3. d["requests"] \in Int /\ d["tokens"] \in Int
    BY <1>9, <1>10
  <2> QED BY <1>11, <1>12, <2>1, <2>2, <2>3 DEF Pays
<1>15. budget' = [j |-> j, floor |-> budget.floor, backup |-> budget.backup,
                 step |-> s, open |-> o, due |-> d, added |-> budget.added,
                 price |-> budget.price, up |-> budget.up, life |-> budget.life]
  BY <1>1, <1>8 DEF BudgetShape
<1>16. BudgetShape'
  BY <1>1, <1>10, <1>15 DEF BudgetShape
<1>17. /\ budget'.j = j /\ budget'.step = s /\ budget'.due = d /\ budget'.up = budget.up
       /\ budget'.floor = budget.floor /\ budget'.backup = budget.backup
       /\ budget'.open \subseteq budget.open /\ budget'.added = budget.added
  BY <1>15
<1>18. StepPays'
  <2>1. CASE s = None
    BY <1>17, <2>1 DEF StepPays
  <2>2. CASE s # None
    BY <1>3, <1>14, <1>17, <2>2, PaysNow
  <2> QED BY <2>1, <2>2
<1>19. /\ budget.added <= budget'.added
       /\ \A k \in Budget!Keys : budget'.due[k] <= budget.due[k]
  BY <1>1, <1>12, <1>17 DEF BudgetShape
<1>20. Account(budget'.j) /\ Within(budget'.j, budget'.added)
  BY <1>11, <1>13, <1>17 DEF Account, Within
<1>21. /\ budget'.floor = budget.floor /\ budget'.backup = budget.backup
       /\ budget'.open \subseteq budget.open
  BY <1>17
<1> QED BY <1>4, <1>16, <1>18, <1>19, <1>20, <1>21, AccountKept

\* A reservation is refused, looked up again or granted.
LEMMA ReservesKeeps ==
    ASSUME BudgetInv, Budget!BudgetAssumption, Budget!Reserves
    PROVE  BudgetInv'
<1> DEFINE e == Budget!Ensured(budget.j)
           s == budget.step
           room == e.limits["tokens"] - e.used["tokens"]
           fits == e.used["requests"]
                     < e.limits["requests"] - (IF s.talk THEN 0 ELSE Talk)
           id == CHOOSE i \in 1..(Budget!Cardinality(Budget!Taken) + 1) :
                    /\ i \notin Budget!Taken
                    /\ \A k \in 1..(i - 1) : k \in Budget!Taken
           n == IF s.size <= room THEN s.size ELSE room
           u == Budget!Plus(e.used, 1, n)
           P == e.pending \cup {<<id, n>>}
           g == {<<id, n>>}
           t == [kind |-> "reserved", grant |-> g]
<1>1. BudgetShape /\ Account(budget.j) /\ StepPays
  BY DEF BudgetInv
<1>2. Account(e) /\ Within(e, budget.added) /\ (budget.floor = None => e = budget.j)
      /\ \A k \in Budget!Keys : budget.due[k] <= e.used[k]
  BY EnsuredCovers
<1>3. s # None /\ s.kind = "quoted" /\ budget.up
  BY <1>1 DEF Budget!Reserves, StepPays
<1>4. Quoted(s)
  <2>1. Pays(s, budget.j, budget.due) => s.kind = "reserved"
    BY DEF Pays
  <2> QED BY <1>1, <1>3, <2>1 DEF StepPays
<1>5. /\ e.used \in [Budget!Keys -> Int] /\ e.limits \in [Budget!Keys -> Int]
      /\ budget.due \in [Budget!Keys -> Int] /\ Talk \in Nat
      /\ s.size \in Nat
  BY <1>1, <1>2, <1>4, LimitsAre DEF Account, BudgetShape, Quoted
<1>6. /\ \A k \in Budget!Keys : k = "requests" \/ k = "tokens"
      /\ "requests" \in Budget!Keys /\ "tokens" \in Budget!Keys
  BY DEF Budget!Keys
<1>7. ASSUME NEW a, Account(a), Within(a, budget.added), NEW x,
             budget' = [budget EXCEPT !.j = a, !.step = x],
             x # None => Quoted(x) \/ Pays(x, a, budget.due),
             \A k \in Budget!Keys : a.used[k] >= e.used[k]
      PROVE  BudgetInv'
  <2>1. budget' = [j |-> a, floor |-> budget.floor, backup |-> budget.backup,
                 step |-> x, open |-> budget.open, due |-> budget.due, added |-> budget.added,
                 price |-> budget.price, up |-> budget.up, life |-> budget.life]
    BY <1>1, <1>7 DEF BudgetShape
  <2>2. BudgetShape'
    BY <1>1, <2>1 DEF BudgetShape
  <2>3. /\ budget'.j = a /\ budget'.step = x /\ budget'.due = budget.due
        /\ budget'.up = budget.up /\ budget'.floor = budget.floor
        /\ budget'.backup = budget.backup /\ budget'.open \subseteq budget.open
        /\ budget'.added = budget.added
    BY <2>1
  <2>4. StepPays'
    <3>1. CASE x = None
      BY <2>3, <3>1 DEF StepPays
    <3>2. CASE Quoted(x)
      BY <1>3, <2>3, <3>2 DEF StepPays, Quoted
    <3>3. CASE Pays(x, a, budget.due)
      BY <1>3, <2>3, <3>3, PaysNow
    <3> QED BY <1>7, <3>1, <3>2, <3>3
  <2>5. /\ budget.added <= budget'.added
        /\ \A k \in Budget!Keys : budget'.due[k] <= budget.due[k]
        /\ budget.floor = None =>
               \A k \in Budget!Keys : /\ budget'.due[k] = budget.due[k]
                                      /\ budget'.j.used[k] >= budget.j.used[k]
    BY <1>1, <1>2, <1>7, <2>3 DEF BudgetShape
  <2>6. Account(budget'.j) /\ Within(budget'.j, budget'.added)
    BY <1>7, <2>3 DEF Account, Within
  <2> QED BY <2>2, <2>3, <2>4, <2>5, <2>6, AccountKept
<1>8. \A k \in Budget!Keys : e.used[k] >= e.used[k]
  BY <1>5
<1>9. CASE ~fits \/ n \notin Sizes
  <2>1. budget' = [budget EXCEPT !.j = e, !.step = None]
    BY <1>9 DEF Budget!Reserves
  <2> HIDE DEF e
  <2> QED BY <1>2, <1>7, <1>8, <2>1
<1>10. CASE fits /\ n \in Sizes /\ budget.price # s.price
  <2> DEFINE again == [s EXCEPT !.price = budget.price]
  <2>1. PICK x \in {None, again} : budget' = [budget EXCEPT !.j = e, !.step = x]
    BY <1>10 DEF Budget!Reserves
  <2>2. Quoted(again)
    <3> HIDE DEF s
    <3>1. again = [kind |-> "quoted", size |-> s.size, talk |-> s.talk, price |-> budget.price]
      BY <1>4 DEF Quoted
    <3> HIDE DEF again
    <3> QED BY <1>5, <3>1 DEF Quoted
  <2> HIDE DEF e, again
  <2> QED BY <1>2, <1>7, <1>8, <2>1, <2>2
<1>11. CASE fits /\ n \in Sizes /\ budget.price = s.price
  <2> DEFINE a == [e EXCEPT !.used = u, !.pending = P]
  <2>1. budget' = [budget EXCEPT !.j = [e EXCEPT !.used = Budget!Plus(@, 1, n),
                                              !.pending = @ \cup {<<id, n>>}], !.step = t]
    BY <1>11 DEF Budget!Reserves
  <2>2. budget' = [budget EXCEPT !.j = a, !.step = t]
    BY <2>1
  <2>3. n \in Nat /\ n <= room
    <3>1. room \in Int
      BY <1>5, <1>6
    <3>2. n \in Nat
      BY <1>11 DEF Budget!BudgetAssumption
    <3> HIDE DEF room, s
    <3> QED BY <1>5, <3>1, <3>2
  <2>4. e.used["requests"] < e.limits["requests"]
    <3>1. (IF s.talk THEN 0 ELSE Talk) \in Nat
      BY <1>5
    <3> DEFINE kept == IF s.talk THEN 0 ELSE Talk
    <3>2. e.used["requests"] < e.limits["requests"] - kept
      BY <1>11
    <3> HIDE DEF kept, e
    <3>3. e.used["requests"] \in Int /\ e.limits["requests"] \in Int
      BY <1>5, <1>6
    <3> QED BY <3>1, <3>2, <3>3 DEF kept
  <2>5. e.limits["tokens"] \in Int /\ e.used["tokens"] \in Int
          /\ n <= e.limits["tokens"] - e.used["tokens"]
    BY <1>5, <1>6, <2>3
  <2> HIDE DEF n, id, e, fits, room
  <2>6. /\ u \in [Budget!Keys -> Int]
        /\ u["requests"] = e.used["requests"] + 1 /\ u["tokens"] = e.used["tokens"] + n
    BY <1>5, <2>3, PlusIs
  <2> HIDE DEF u, P
  <2>7. a = [used |-> u, limits |-> e.limits, pending |-> P]
    BY <1>2, AccountWith
  <2> HIDE DEF a
  <2>8. Account(a) /\ a.used = u /\ a.limits = e.limits
    BY <1>5, <2>6, <2>7, AccountIs
  <2>9. ASSUME NEW k \in Budget!Keys
        PROVE  u[k] >= e.used[k] /\ u[k] <= e.limits[k]
    <3>1. CASE k = "requests"
      BY <1>5, <1>6, <2>4, <2>6, <3>1
    <3>2. CASE k = "tokens"
      BY <1>5, <1>6, <2>3, <2>5, <2>6, <3>2
    <3> QED BY <1>6, <3>1, <3>2
  <2>10. Within(a, budget.added)
    BY <1>2, <2>8, <2>9 DEF Within
  <2>11. Requested(g) = 1 /\ Reserved(g) = n
    <3>1. g # {} /\ (CHOOSE r \in g : TRUE) = <<id, n>>
      OBVIOUS
    <3>2. <<id, n>>[2] = n
      OBVIOUS
    <3> HIDE DEF g
    <3>3. Requested(g) = 1
      BY <3>1 DEF Requested
    <3>4. Reserved(g) = <<id, n>>[2]
      BY <3>1, Zenon DEF Reserved
    <3> QED BY <3>2, <3>3, <3>4
  <2>12. g = {<<id, n>>}
    OBVIOUS
  <2> HIDE DEF g
  <2>13. Pays(t, a, budget.due)
    <3>1. t = [kind |-> "reserved", grant |-> t.grant] /\ t.grant = g
      OBVIOUS
    <3> HIDE DEF t
    <3>2. /\ budget.due["requests"] + 1 <= u["requests"]
          /\ budget.due["tokens"] + n <= u["tokens"]
      BY <1>2, <1>5, <1>6, <2>3, <2>6
    <3>3. t.grant # {} => \E i, m : t.grant = {<<i, m>>} /\ m \in Nat
      BY <2>3, <2>12, <3>1
    <3> QED BY <2>8, <2>11, <3>1, <3>2, <3>3 DEF Pays
  <2> HIDE DEF t
  <2> QED BY <1>7, <2>2, <2>8, <2>9, <2>10, <2>13
<1> QED BY <1>9, <1>10, <1>11

\* The invariant holds when nothing is spent.
LEMMA BudgetStarts == Budget!Init /\ Budget!BudgetAssumption => BudgetInv
<1> SUFFICES ASSUME Budget!Init, Budget!BudgetAssumption PROVE BudgetInv
  OBVIOUS
<1> DEFINE a == [used |-> Budget!Zero, limits |-> Budget!Limits, pending |-> {}]
<1>1. budget = [j |-> a, floor |-> None, backup |-> None, step |-> None, open |-> {},
                due |-> Budget!Zero, added |-> 0, price |-> 0, up |-> TRUE, life |-> 1]
  BY DEF Budget!Init
<1>2. Budget!Zero \in [Budget!Keys -> Int] /\ Budget!Limits \in [Budget!Keys -> Int]
      /\ \A k \in Budget!Keys : Budget!Zero[k] = 0 /\ Budget!Limits[k] \in Nat
  BY LimitsAre DEF Budget!Zero
<1>3. Account(a) /\ a.used = Budget!Zero /\ a.limits = Budget!Limits
  BY <1>2, AccountIs
<1> HIDE DEF a
<1>4. BudgetShape
  BY <1>1, <1>2 DEF BudgetShape
<1>5. Within(a, 0)
  BY <1>2, <1>3 DEF Within
<1>6. FloorHolds /\ StepPays
  BY <1>1, <1>2, <1>3 DEF FloorHolds, StepPays
<1> QED BY <1>1, <1>3, <1>4, <1>5, <1>6 DEF BudgetInv

\* Every step of the budget keeps the invariant.
LEMMA BudgetSteps ==
    ASSUME BudgetInv, Budget!BudgetAssumption, Budget!Next
    PROVE  BudgetInv'
BY QuotesKeeps, SettlesKeeps, ReservesKeeps, PersistsKeeps, AddsKeeps, NothingDue, BackupKeeps
   DEF Budget!Next

\* The invariant says that money spent is kept.
LEMMA SpendingKept == BudgetInv /\ Budget!BudgetAssumption => Budget!SpendingIsKept
<1> SUFFICES ASSUME BudgetInv, Budget!BudgetAssumption, NEW k \in Budget!Keys
             PROVE  /\ budget.due[k] <= Budget!Limits[k] + budget.added
                    /\ \/ budget.due[k] <= budget.j.used[k]
                       \/ budget.floor # None /\ budget.due[k] <= budget.floor.used[k]
  BY DEF Budget!SpendingIsKept
<1>1. /\ budget.due[k] \in Int /\ budget.added \in Nat /\ Budget!Limits[k] \in Nat
      /\ FloorHolds /\ budget.j.used[k] \in Int
  BY LimitsAre DEF BudgetInv, BudgetShape, Account
<1>2. CASE budget.floor = None
  BY <1>1, <1>2 DEF FloorHolds
<1>3. CASE budget.floor # None
  <2>1. /\ budget.floor.used[k] \in Int /\ budget.floor.limits[k] \in Int
        /\ budget.floor.used[k] <= budget.floor.limits[k]
        /\ budget.floor.limits[k] <= Budget!Limits[k] + budget.added
        /\ budget.due[k] <= budget.floor.used[k]
    BY <1>1, <1>3 DEF FloorHolds, Floor, Within
  <2> QED BY <1>1, <1>3, <2>1
<1> QED BY <1>2, <1>3

-----------------------------------------------------------------------------

\* Money spent is not forgotten, whoever dies and whatever backup comes back
\* (session/Budget.ts), contracts never overlap or come back, and a reservation
\* quotes a price in force (session/PriceImport.ts): for any limits, prices,
\* tables and number of processes.
THEOREM MoneyTheorem == Spec => []MoneyIsAccounted
<1> DEFINE I == (part = "budget" => BudgetInv) /\ (part = "prices" => BookInv)
<1>0. Budget!BudgetAssumption /\ Book!PricesAssumption
  BY StorageAssumption DEF StorageAssumption
<1>1. Init => I
  BY <1>0, BudgetStarts, BookStarts DEF Init
<1>2. I /\ [Next]_vars => I'
  <2> SUFFICES ASSUME I, [Next]_vars PROVE I'
    OBVIOUS
  <2>1. CASE Next /\ part = "budget"
    <3>1. Budget!Next /\ BudgetInv /\ part' = "budget"
      BY <2>1 DEF Next
    <3> QED BY <1>0, <3>1, BudgetSteps
  <2>2. CASE Next /\ part = "prices"
    <3>1. Book!Next /\ BookInv /\ part' = "prices"
      BY <2>2 DEF Next
    <3> QED BY <1>0, <3>1, BookSteps
  <2>3. CASE Next /\ part \notin {"budget", "prices"}
    BY <2>3 DEF Next
  <2>4. CASE UNCHANGED vars
    <3>1. part' = part /\ budget' = budget /\ book' = book
      BY <2>4 DEF vars
    <3>2. BudgetInv => BudgetInv'
      BY <3>1 DEF BudgetInv, BudgetShape, Account, Within, FloorHolds, Floor, StepPays, Quoted,
         Pays, Requested, Reserved
    <3>3. BookInv => BookInv'
      BY <3>1 DEF BookInv, BookShape, Book!BookIsSound, Book!Conflicts, Book!Overlap, Entitled,
         Revision, Reservation, Fetching, Book!Allowed, Book!Known
    <3> QED BY <3>1, <3>2, <3>3
  <2> QED BY <2>1, <2>2, <2>3, <2>4
<1>3. I => MoneyIsAccounted
  BY <1>0, SpendingKept, BookIsGood DEF MoneyIsAccounted
<1> QED BY <1>1, <1>2, <1>3, PTL DEF Spec

-----------------------------------------------------------------------------
(* Archives *)

\* What a quotient is.
LEMMA Quotient ==
    ASSUME NEW x \in Nat, NEW d \in Nat \ {0}
    PROVE  x \div d \in Nat /\ d * (x \div d) <= x /\ x < d * (x \div d) + d
OBVIOUS

LEMMA Products ==
    ASSUME NEW a \in Nat, NEW b \in Nat, NEW c \in Nat, a <= b
    PROVE  a * c <= b * c
OBVIOUS

\* A quotient is at most q if the dividend is less than the next multiple.
LEMMA QuotientAtMost ==
    ASSUME NEW x \in Nat, NEW d \in Nat \ {0}, NEW q \in Nat, x < q * d + d
    PROVE  x \div d <= q
<1> DEFINE p == x \div d
<1>1. p \in Nat /\ d * p <= x
  BY Quotient
<1> HIDE DEF p
<1>2. ASSUME q + 1 <= p PROVE FALSE
  <2>1. (q + 1) * d <= p * d
    BY <1>1, <1>2, Products
  <2>2. (q + 1) * d = q * d + d /\ p * d = d * p /\ q * d \in Nat /\ p * d \in Nat
    BY <1>1
  <2> QED BY <1>1, <2>1, <2>2
<1> QED BY <1>1, <1>2 DEF p

\* More entries have ended in more blocks.
LEMMA EndedIs ==
    ASSUME Chunks!ArchivesAssumption, NEW n \in Nat
    PROVE  /\ Chunks!Ended(n) \in Nat /\ Blocks * Chunks!Ended(n) <= n * Entries
           /\ \A k \in Nat : k <= n => Chunks!Ended(k) <= Chunks!Ended(n)
           /\ Chunks!Ended(0) = 0
<1>1. Blocks \in Nat \ {0} /\ Entries \in Nat \ {0}
  BY DEF Chunks!ArchivesAssumption
<1>2. n * Entries \in Nat
  BY <1>1
<1>3. Chunks!Ended(n) \in Nat /\ Blocks * Chunks!Ended(n) <= n * Entries
      /\ n * Entries < Blocks * Chunks!Ended(n) + Blocks
  BY <1>1, <1>2, Quotient DEF Chunks!Ended
<1>4. ASSUME NEW k \in Nat, k <= n PROVE Chunks!Ended(k) <= Chunks!Ended(n)
  <2> DEFINE q == Chunks!Ended(n)
  <2>1. k * Entries <= n * Entries /\ k * Entries \in Nat
    BY <1>1, <1>4, Products
  <2>2. k * Entries < q * Blocks + Blocks
    <3>1. q * Blocks = Blocks * q /\ q * Blocks \in Nat
      BY <1>1, <1>3
    <3> HIDE DEF q
    <3> QED BY <1>1, <1>2, <1>3, <2>1, <3>1 DEF q
  <2> HIDE DEF q
  <2>3. q \in Nat
    BY <1>3 DEF q
  <2>4. (k * Entries) \div Blocks <= q
    BY <1>1, <2>1, <2>2, <2>3, QuotientAtMost
  <2> QED BY <2>4 DEF q, Chunks!Ended
<1>5. Chunks!Ended(0) = 0
  <2>1. 0 * Entries = 0 /\ Blocks * 0 = 0
    BY <1>1
  <2>2. 0 \div Blocks <= 0 /\ 0 \div Blocks \in Nat
    BY <1>1, QuotientAtMost, Quotient
  <2> QED BY <2>1, <2>2 DEF Chunks!Ended
<1> QED BY <1>3, <1>4, <1>5

\* An entry that ends in the first n blocks lies in them.
LEMMA LiesIn ==
    ASSUME Chunks!ArchivesAssumption, NEW n \in Nat, NEW e \in Nat \ {0}, e <= Chunks!Ended(n)
    PROVE  Chunks!First(e)..Chunks!Final(e) \subseteq 1..n
<1>1. Blocks \in Nat \ {0} /\ Entries \in Nat \ {0} /\ Chunks!Ended(n) \in Nat
  BY EndedIs DEF Chunks!ArchivesAssumption
<1>2. e * Blocks <= n * Entries
  <2>1. e * Blocks <= Chunks!Ended(n) * Blocks
    BY <1>1, Products
  <2>2. Blocks * Chunks!Ended(n) <= n * Entries
    BY EndedIs
  <2>3. Blocks * Chunks!Ended(n) = Chunks!Ended(n) * Blocks
    BY <1>1
  <2>4. e * Blocks \in Nat /\ Chunks!Ended(n) * Blocks \in Nat /\ n * Entries \in Nat
    BY <1>1
  <2> QED BY <2>1, <2>2, <2>3, <2>4
<1>3. Chunks!Final(e) \in Nat /\ Chunks!Final(e) <= n
  <2>1. e * Blocks \in Nat /\ n * Entries \in Nat
    BY <1>1
  <2>2. e * Blocks + Entries - 1 \in Nat /\ e * Blocks + Entries - 1 < n * Entries + Entries
    BY <1>1, <1>2, <2>1
  <2> QED BY <1>1, <2>2, QuotientAtMost, Quotient DEF Chunks!Final
<1>4. Chunks!First(e) \in Nat \ {0}
  <2>1. (e - 1) * Blocks \in Nat
    BY <1>1
  <2> QED BY <1>1, <2>1, Quotient DEF Chunks!First
<1> QED BY <1>3, <1>4

\* What is known of an entry depends on the blocks it lies in.
LEMMA JudgedSame ==
    ASSUME Chunks!ArchivesAssumption, NEW n \in Nat, NEW e \in Nat \ {0}, e <= Chunks!Ended(n),
           NEW got, NEW more, \A i \in 1..n : got[i] = more[i]
    PROVE  Chunks!Judged(got, e) = Chunks!Judged(more, e)
<1>1. Chunks!First(e)..Chunks!Final(e) \subseteq 1..n
  BY LiesIn
<1>2. (\E i \in Chunks!First(e)..Chunks!Final(e) : got[i] = "wrong")
      <=> \E i \in Chunks!First(e)..Chunks!Final(e) : more[i] = "wrong"
  BY <1>1
<1> QED BY <1>2, Zenon DEF Chunks!Judged

\* The first entry of a page is the one after this.
Before(a, after) == IF after > Chunks!Ended(a) THEN after ELSE Chunks!Ended(a)

\* The entries as they are in this text.
Judgements(got) == {Chunks!Judged(got, e) : e \in Nat}

LEMMA PageIs ==
    ASSUME Chunks!ArchivesAssumption, NEW a \in Nat, NEW b \in Nat, NEW after \in Nat, NEW got
    PROVE  LET page == Chunks!Parsed(got, a, b, after)
               size == Chunks!Ended(b) - Before(a, after)
           IN  /\ page \in Seq(Judgements(got))
               /\ Len(page) = IF size > 0 THEN size ELSE 0
               /\ \A k \in 1..Len(page) : page[k] = Chunks!Judged(got, Before(a, after) + k)
<1> DEFINE page == Chunks!Parsed(got, a, b, after)
           n == Before(a, after)
           size == Chunks!Ended(b) - n
           len == IF size > 0 THEN size ELSE 0
           S == Judgements(got)
<1>1. n \in Nat /\ Chunks!Ended(b) \in Nat
  BY EndedIs DEF Before
<1>2. page = [k \in 1..size |-> Chunks!Judged(got, n + k)]
  BY DEF Chunks!Parsed, Before
<1> HIDE DEF page, n
<1>3. len \in Nat /\ 1..size = 1..len
  BY <1>1
<1> HIDE DEF size
<1>4. page \in [1..len -> S]
  BY <1>1, <1>2, <1>3 DEF Judgements
<1> HIDE DEF len, S
<1>5. page \in Seq(S) /\ Len(page) = len
  BY <1>3, <1>4
<1>6. \A k \in 1..len : page[k] = Chunks!Judged(got, n + k)
  BY <1>2, <1>3
<1> QED BY <1>5, <1>6 DEF page, n, size, len, S

\* Two texts are the same in their first n blocks.
SameUpTo(got, more, n) == \A i \in 1..n : got[i] = more[i]

LEMMA PageSame ==
    ASSUME Chunks!ArchivesAssumption, NEW a \in Nat, NEW b \in Nat, NEW after \in Nat,
           NEW got, NEW more, SameUpTo(got, more, b)
    PROVE  Chunks!Parsed(got, a, b, after) = Chunks!Parsed(more, a, b, after)
<1> DEFINE n == Before(a, after)
           size == Chunks!Ended(b) - n
<1>1. n \in Nat /\ Chunks!Ended(b) \in Nat
  BY EndedIs DEF Before
<1>2. /\ Chunks!Parsed(got, a, b, after) = [k \in 1..size |-> Chunks!Judged(got, n + k)]
      /\ Chunks!Parsed(more, a, b, after) = [k \in 1..size |-> Chunks!Judged(more, n + k)]
  BY DEF Chunks!Parsed, Before
<1> HIDE DEF n
<1>3. ASSUME NEW k \in 1..size PROVE Chunks!Judged(got, n + k) = Chunks!Judged(more, n + k)
  <2>1. n + k \in Nat \ {0} /\ n + k <= Chunks!Ended(b)
    BY <1>1
  <2> QED BY <1>1, <2>1, JudgedSame DEF SameUpTo
<1> HIDE DEF size
<1> QED BY <1>2, <1>3

\* Two pages, the second where the first ends, are one.
Join(got, b, c, after) ==
    /\ Chunks!Parsed(got, 0, b, after) \o Chunks!Parsed(got, b, c, after)
            = Chunks!Parsed(got, 0, c, after)
    /\ Chunks!IsPrefix(Chunks!Parsed(got, 0, b, after), Chunks!Parsed(got, 0, c, after))

LEMMA PagesJoin ==
    ASSUME Chunks!ArchivesAssumption, NEW b \in Nat, NEW c \in Nat, b <= c,
           NEW after \in Nat, NEW got
    PROVE  Join(got, b, c, after)
<1> DEFINE a == 0
           S == Judgements(got)
           p == Chunks!Parsed(got, a, b, after)
           q == Chunks!Parsed(got, b, c, after)
           r == Chunks!Parsed(got, a, c, after)
           na == Before(a, after)
           nb == Before(b, after)
<1>0. a \in Nat /\ a <= b
  OBVIOUS
<1> HIDE DEF a
<1>1. /\ na \in Nat /\ nb \in Nat /\ Chunks!Ended(b) \in Nat /\ Chunks!Ended(c) \in Nat
      /\ Chunks!Ended(b) <= Chunks!Ended(c) /\ na <= nb
      /\ (na < Chunks!Ended(b) => nb = Chunks!Ended(b))
      /\ (na >= Chunks!Ended(b) => nb = na)
  <2>1. /\ Chunks!Ended(a) \in Nat /\ Chunks!Ended(b) \in Nat /\ Chunks!Ended(c) \in Nat
        /\ Chunks!Ended(a) <= Chunks!Ended(b) /\ Chunks!Ended(b) <= Chunks!Ended(c)
    BY <1>0, EndedIs
  <2> QED BY <2>1 DEF Before
<1>2. /\ p \in Seq(S) /\ Len(p) = (IF Chunks!Ended(b) - na > 0 THEN Chunks!Ended(b) - na ELSE 0)
      /\ \A k \in 1..Len(p) : p[k] = Chunks!Judged(got, na + k)
  BY <1>0, PageIs
<1>3. /\ q \in Seq(S) /\ Len(q) = (IF Chunks!Ended(c) - nb > 0 THEN Chunks!Ended(c) - nb ELSE 0)
      /\ \A k \in 1..Len(q) : q[k] = Chunks!Judged(got, nb + k)
  BY <1>0, PageIs
<1>4. /\ r \in Seq(S) /\ Len(r) = (IF Chunks!Ended(c) - na > 0 THEN Chunks!Ended(c) - na ELSE 0)
      /\ \A k \in 1..Len(r) : r[k] = Chunks!Judged(got, na + k)
  BY <1>0, PageIs
<1> HIDE DEF p, q, r, na, nb, S
<1>5. Len(r) = Len(p) + Len(q) /\ (Len(q) > 0 => nb = na + Len(p))
  <2> DEFINE eb == Chunks!Ended(b)
             ec == Chunks!Ended(c)
             lp == Len(p)
             lq == Len(q)
             lr == Len(r)
  <2>1. /\ na \in Nat /\ nb \in Nat /\ eb \in Nat /\ ec \in Nat /\ eb <= ec /\ na <= nb
        /\ (na < eb => nb = eb) /\ (na >= eb => nb = na)
        /\ lp = (IF eb - na > 0 THEN eb - na ELSE 0) /\ lq = (IF ec - nb > 0 THEN ec - nb ELSE 0)
        /\ lr = (IF ec - na > 0 THEN ec - na ELSE 0)
    BY <1>1, <1>2, <1>3, <1>4
  <2> HIDE DEF eb, ec, lp, lq, lr
  <2>2. lr = lp + lq /\ (lq > 0 => nb = na + lp)
    BY <2>1
  <2> QED BY <2>2 DEF lp, lq, lr
<1>6. \A k \in 1..Len(r) : r[k] = IF k <= Len(p) THEN p[k] ELSE q[k - Len(p)]
  <2> SUFFICES ASSUME NEW k \in 1..Len(r)
               PROVE  r[k] = IF k <= Len(p) THEN p[k] ELSE q[k - Len(p)]
    OBVIOUS
  <2>0. Len(p) \in Nat /\ Len(q) \in Nat /\ Len(r) \in Nat
    BY <1>2, <1>3, <1>4
  <2>1. CASE k <= Len(p)
    BY <1>2, <1>4, <2>0, <2>1
  <2>2. CASE k > Len(p)
    <3>1. k - Len(p) \in 1..Len(q) /\ nb + (k - Len(p)) = na + k
      BY <1>1, <1>5, <2>0, <2>2
    <3>2. q[k - Len(p)] = Chunks!Judged(got, nb + (k - Len(p)))
      BY <1>3, <3>1
    <3>3. r[k] = Chunks!Judged(got, na + k)
      BY <1>4
    <3>4. q[k - Len(p)] = r[k]
      BY <3>1, <3>2, <3>3
    <3> QED BY <2>0, <2>2, <3>4
  <2> QED BY <2>0, <2>1, <2>2
<1>7. p \o q = r
  <2>1. p \o q \in Seq(S) /\ Len(p \o q) = Len(p) + Len(q)
        /\ \A k \in 1..(Len(p) + Len(q)) : (p \o q)[k] = IF k <= Len(p) THEN p[k] ELSE q[k - Len(p)]
    BY <1>2, <1>3, ConcatProperties
  <2>2. \A k \in 1..Len(r) : (p \o q)[k] = r[k]
    BY <1>5, <1>6, <2>1
  <2> DEFINE s == p \o q
  <2> HIDE DEF s
  <2>3. s \in Seq(S) /\ Len(s) = Len(r) /\ \A k \in 1..Len(s) : s[k] = r[k]
    BY <1>5, <2>1, <2>2 DEF s
  <2>4. s = r
    BY <1>4, <2>3, SeqEqual
  <2> QED BY <2>4 DEF s
<1>8. Chunks!IsPrefix(p, r)
  <2>1. Len(p) \in Nat /\ Len(p) <= Len(r)
    BY <1>2, <1>3, <1>5
  <2>2. \A i \in 1..Len(p) : p[i] \in S /\ r[i] \in S /\ p[i] = r[i]
    BY <1>2, <1>4, <1>6, <2>1
  <2> DEFINE x == SubSeq(p, 1, Len(p))
             y == SubSeq(r, 1, Len(p))
  <2>3. x \in Seq(S) /\ Len(x) = Len(p) /\ \A i \in 1..Len(p) : x[i] = p[i]
    <3>1. 1 \in Int /\ Len(p) \in Int
      BY <2>1
    <3>2. /\ SubSeq(p, 1, Len(p)) \in Seq(S)
          /\ Len(SubSeq(p, 1, Len(p))) = (IF 1 <= Len(p) THEN Len(p) - 1 + 1 ELSE 0)
          /\ \A i \in 1..(Len(p) - 1 + 1) : SubSeq(p, 1, Len(p))[i] = p[1 + i - 1]
      BY <2>2, <3>1, SubSeqProperties
    <3> HIDE DEF x
    <3> QED BY <2>1, <3>2 DEF x
  <2>4. y \in Seq(S) /\ Len(y) = Len(p) /\ \A i \in 1..Len(p) : y[i] = r[i]
    <3>1. 1 \in Int /\ Len(p) \in Int
      BY <2>1
    <3>2. /\ SubSeq(r, 1, Len(p)) \in Seq(S)
          /\ Len(SubSeq(r, 1, Len(p))) = (IF 1 <= Len(p) THEN Len(p) - 1 + 1 ELSE 0)
          /\ \A i \in 1..(Len(p) - 1 + 1) : SubSeq(r, 1, Len(p))[i] = r[1 + i - 1]
      BY <2>2, <3>1, SubSeqProperties
    <3> HIDE DEF y
    <3> QED BY <2>1, <3>2 DEF y
  <2> HIDE DEF x, y
  <2>5. x = y
    BY <2>2, <2>3, <2>4, SeqEqual
  <2> QED BY <2>1, <2>5 DEF x, y, Chunks!IsPrefix
<1> QED BY <1>7, <1>8, Zenon DEF p, q, r, a, Join

\* Nothing ends in no blocks; where as many entries have ended, the pages are the same.
LEMMA PageEnds ==
    ASSUME Chunks!ArchivesAssumption, NEW after \in Nat, NEW got
    PROVE  /\ Chunks!Parsed(got, 0, 0, after) = <<>>
           /\ \A b, c \in Nat : Chunks!Ended(b) = Chunks!Ended(c)
                => Chunks!Parsed(got, 0, b, after) = Chunks!Parsed(got, 0, c, after)
<1>1. Chunks!Parsed(got, 0, 0, after) = <<>>
  <2> DEFINE p == Chunks!Parsed(got, 0, 0, after)
  <2>1. 0 \in Nat /\ Chunks!Ended(0) = 0 /\ Before(0, after) = after
    BY EndedIs DEF Before
  <2>2. /\ p \in Seq(Judgements(got))
        /\ Len(p) = (IF Chunks!Ended(0) - Before(0, after) > 0
                       THEN Chunks!Ended(0) - Before(0, after) ELSE 0)
    BY <2>1, PageIs
  <2> HIDE DEF p
  <2>3. Len(p) = 0
    BY <2>1, <2>2
  <2>4. p = <<>>
    BY <2>2, <2>3
  <2> QED BY <2>4 DEF p
<1>2. ASSUME NEW b \in Nat, NEW c \in Nat, Chunks!Ended(b) = Chunks!Ended(c)
      PROVE  Chunks!Parsed(got, 0, b, after) = Chunks!Parsed(got, 0, c, after)
  BY <1>2, Zenon DEF Chunks!Parsed
<1> QED BY <1>1, <1>2

\* What is kept of an archive.
KeptOf(c, a, stamp) == {s \in c : s.a = a /\ s.stamp = stamp}

\* Where the first k chunks end.
Edge(cuts, k) == IF k = 0 THEN 0 ELSE cuts[k]

\* The chunks are cut in what was read, each after the one before.
CutsAre(cuts, n) ==
    /\ cuts \in Seq(Nat)
    /\ \A i \in 1..Len(cuts) : cuts[i] <= n /\ Edge(cuts, i - 1) <= cuts[i]

GotIs(got) == got \in Seq(Chunks!Content) /\ Len(got) <= Blocks

\* A snapshot whose digest was checked holds the whole text, and its chunks all entries.
SnapshotIs(s) ==
    /\ {"a", "stamp", "got", "cuts", "verified", "rotten"} \subseteq DOMAIN s
    /\ GotIs(s.got) /\ CutsAre(s.cuts, Len(s.got))
    /\ s.verified => /\ s.got = Chunks!Right
                     /\ Chunks!Ended(Edge(s.cuts, Len(s.cuts))) = Chunks!Ended(Blocks)

\* There is one snapshot of a file at most.
KeptIs(c) ==
    /\ \A s \in c : SnapshotIs(s)
    /\ \A s, t \in c : s.a = t.a /\ s.stamp = t.stamp => s = t

FilesAre(f) == f \in [Archives -> [blocks : [1..Blocks -> Chunks!Content], stamp : Nat]]

\* What is right of the inputs up to the n-th was so when the file was opened.
Held(got, old, n) == \A i \in 1..n : i <= Len(got) /\ got[i] = "right" => old[i] = "right"

Unread(r) == r.out = <<>> /\ r.next = 1 /\ r.cached = FALSE

\* What a reader has seen and given at each of its steps; kept is what is kept of its archive,
\* plain the form of the text.
InItsStep(r, kept, plain) ==
    /\ r.step \in {"load", "check", "read", "save", "yield", "stream", "done"}
    /\ r.step \in {"load", "check", "read", "save"} => Unread(r)
    /\ r.step = "load" => r.got = <<>> /\ r.cuts = <<>> /\ r.checked = 0
    /\ r.step = "check" =>
        /\ kept # {} /\ \A s \in kept : s.got = r.got /\ s.cuts = r.cuts
        /\ r.checked \in Nat /\ Held(r.got, r.old, r.checked)
    /\ r.step \in {"read", "save", "stream"} =>
        GotIs(r.got) /\ CutsAre(r.cuts, Len(r.got)) /\ Held(r.got, r.old, Len(r.got))
    /\ r.step = "yield" =>
        /\ r.old = Chunks!Right /\ r.next \in Nat \ {0} /\ kept # {}
        /\ \A s \in kept :
            /\ s.verified /\ r.next <= Len(s.cuts) + 1
            /\ r.out = Chunks!Parsed(Chunks!Right, 0, Edge(s.cuts, r.next - 1), r.after)
    /\ r.step = "stream" =>
        /\ r.cached = FALSE
        /\ plain => r.out = Chunks!Parsed(r.got, 0, Len(r.got), r.after)
    /\ r.step = "done" =>
        r.out = Chunks!Parsed(Chunks!Right, 0, Blocks, r.after) /\ r.intact

\* The file a reader opened only gets worse, until another one has its name.
Opened(r, f) ==
    /\ r.stamp <= f[r.a].stamp
    /\ f[r.a].stamp = r.stamp =>
        \A i \in 1..Blocks : f[r.a].blocks[i] = "right" => r.old[i] = "right"

ReaderShape(r) ==
    /\ {"a", "stamp", "old", "after", "step", "got", "cuts", "checked", "out", "cached", "next",
        "intact"} \subseteq DOMAIN r
    /\ r.a \in Archives /\ r.stamp \in Nat /\ r.after \in Nat
    /\ r.old \in [1..Blocks -> Chunks!Content] /\ (r.old = Chunks!Right => r.intact)

ReaderIs(r, f, c, plain) ==
    ReaderShape(r) /\ Opened(r, f) /\ InItsStep(r, KeptOf(c, r.a, r.stamp), plain[r.a])

\* The inductive invariant of the archives.
ArchiveIs(w) ==
    /\ {"file", "plain", "rots", "cache", "r"} \subseteq DOMAIN w
    /\ FilesAre(w.file) /\ KeptIs(w.cache)
    /\ w.r # None => ReaderIs(w.r, w.file, w.cache, w.plain)

\* What a block that is read was when the file was opened.
LEMMA BlockIs ==
    ASSUME ArchiveIs(archive), archive.r # None, NEW i \in 1..Blocks
    PROVE  /\ Chunks!Block(i) \in Chunks!Content
           /\ Chunks!Block(i) = "right" => archive.r.old[i] = "right"
<1> DEFINE r == archive.r
           f == archive.file
<1>1. /\ r.a \in Archives /\ r.old \in [1..Blocks -> Chunks!Content]
      /\ f \in [Archives -> [blocks : [1..Blocks -> Chunks!Content], stamp : Nat]]
      /\ f[r.a].stamp = r.stamp =>
            \A j \in 1..Blocks : f[r.a].blocks[j] = "right" => r.old[j] = "right"
  BY DEF ArchiveIs, ReaderIs, ReaderShape, FilesAre, Opened
<1>2. f[r.a].blocks[i] \in Chunks!Content /\ r.old[i] \in Chunks!Content
  BY <1>1
<1>3. Chunks!Block(i) = IF f[r.a].stamp = r.stamp THEN f[r.a].blocks[i] ELSE r.old[i]
  BY DEF Chunks!Block
<1> HIDE DEF r, f
<1>4. /\ Chunks!Block(i) \in Chunks!Content
      /\ Chunks!Block(i) = "right" => r.old[i] = "right"
  BY <1>1, <1>2, <1>3
<1> QED BY <1>4 DEF r

\* What was all right when it was opened.
LEMMA AllHeld ==
    ASSUME NEW r, ReaderShape(r), Held(Chunks!Right, r.old, Blocks), Chunks!ArchivesAssumption
    PROVE  r.old = Chunks!Right /\ r.intact
<1>1. Blocks \in Nat /\ Len(Chunks!Right) = Blocks /\ \A i \in 1..Blocks : Chunks!Right[i] = "right"
  BY DEF Chunks!ArchivesAssumption, Chunks!Right
<1>2. \A i \in 1..Blocks : r.old[i] = "right"
  BY <1>1 DEF Held
<1>3. r.old = Chunks!Right
  BY <1>2 DEF ReaderShape, Chunks!Right
<1> QED BY <1>3 DEF ReaderShape

\* A step of a reader that leaves its file alone.
LEMMA ReaderWith ==
    ASSUME NEW r, NEW f, NEW c, NEW plain, ReaderIs(r, f, c, plain),
           NEW q, NEW d, DOMAIN q = DOMAIN r,
           q.a = r.a /\ q.stamp = r.stamp /\ q.old = r.old /\ q.after = r.after
              /\ q.intact = r.intact,
           InItsStep(q, KeptOf(d, r.a, r.stamp), plain[r.a])
    PROVE  ReaderIs(q, f, d, plain)
<1>1. ReaderShape(q)
  BY DEF ReaderIs, ReaderShape
<1>2. Opened(q, f)
  BY DEF ReaderIs, Opened
<1> QED BY <1>1, <1>2 DEF ReaderIs

\* Fewer snapshots are in order too.
LEMMA KeptLess ==
    ASSUME NEW c, KeptIs(c), NEW d, d \subseteq c
    PROVE  KeptIs(d)
BY DEF KeptIs

\* The state with another reader and another cache.
LEMMA ArchiveWith ==
    ASSUME ArchiveIs(archive), NEW q, NEW d, KeptIs(d),
           DOMAIN archive' = DOMAIN archive, archive'.r = q, archive'.cache = d,
           archive'.file = archive.file, archive'.plain = archive.plain,
           q # None => ReaderIs(q, archive.file, d, archive.plain)
    PROVE  ArchiveIs(archive')
BY DEF ArchiveIs

\* The empty text is in order.
LEMMA NothingRead ==
    ASSUME Chunks!ArchivesAssumption, NEW old
    PROVE  GotIs(<<>>) /\ CutsAre(<<>>, Len(<<>>)) /\ Held(<<>>, old, Len(<<>>))
BY DEF GotIs, CutsAre, Held, Chunks!ArchivesAssumption

LEMMA BeginKeeps ==
    ASSUME ArchiveIs(archive), Chunks!ArchivesAssumption, NEW a \in Archives,
           NEW after \in 0..(Entries - 1), Chunks!Begin(a, after)
    PROVE  ArchiveIs(archive')
<1>1. PICK step \in {"load", "stream"} :
        archive' = [archive EXCEPT !.r = [a |-> a, stamp |-> archive.file[a].stamp,
                    old |-> archive.file[a].blocks,
                    after |-> after, step |-> step, got |-> <<>>, cuts |-> <<>>, checked |-> 0,
                    out |-> <<>>, cached |-> FALSE, next |-> 1,
                    intact |-> archive.file[a].blocks = Chunks!Right]]
  BY DEF Chunks!Begin
<1> DEFINE f == archive.file
           q == [a |-> a, stamp |-> f[a].stamp, old |-> f[a].blocks,
                 after |-> after, step |-> step, got |-> <<>>, cuts |-> <<>>, checked |-> 0,
                 out |-> <<>>, cached |-> FALSE, next |-> 1, intact |-> f[a].blocks = Chunks!Right]
<1>2. /\ DOMAIN archive' = DOMAIN archive /\ archive'.r = q /\ archive'.cache = archive.cache
      /\ archive'.file = f /\ archive'.plain = archive.plain
  BY <1>1 DEF ArchiveIs
<1>3. KeptIs(archive.cache) /\ f \in [Archives -> [blocks : [1..Blocks -> Chunks!Content],
        stamp : Nat]]
      /\ after \in Nat
  BY DEF ArchiveIs, FilesAre
<1>4. f[a].stamp \in Nat /\ f[a].blocks \in [1..Blocks -> Chunks!Content]
  BY <1>3
<1> DEFINE stamp == f[a].stamp
           blocks == f[a].blocks
<1>5. q.a = a /\ q.stamp = stamp /\ q.old = blocks /\ q.after = after /\ q.step = step
      /\ q.got = <<>> /\ q.cuts = <<>> /\ q.checked = 0 /\ Unread(q)
      /\ (q.intact <=> blocks = Chunks!Right)
  BY DEF Unread
<1>6. {"a", "stamp", "old", "after", "step", "got", "cuts", "checked", "out", "cached", "next",
        "intact"} \subseteq DOMAIN q
  OBVIOUS
<1> HIDE DEF q
<1>7. ReaderShape(q)
  BY <1>3, <1>4, <1>5, <1>6 DEF ReaderShape
<1>8. Opened(q, f)
  BY <1>4, <1>5 DEF Opened
<1>9. InItsStep(q, KeptOf(archive.cache, q.a, q.stamp), archive.plain[q.a])
  <2>1. GotIs(<<>>) /\ CutsAre(<<>>, Len(<<>>)) /\ Held(<<>>, q.old, Len(<<>>))
    BY NothingRead
  <2>2. Chunks!Parsed(<<>>, 0, Len(<<>>), after) = <<>>
    BY <1>3, PageEnds
  <2> HIDE DEF f
  <2> QED BY <1>1, <1>5, <2>1, <2>2 DEF InItsStep, Unread
<1>10. ReaderIs(q, f, archive.cache, archive.plain)
  BY <1>7, <1>8, <1>9 DEF ReaderIs
<1> HIDE DEF f
<1> QED BY <1>2, <1>3, <1>10, ArchiveWith DEF f

\* What a reader knows of itself.
LEMMA ReaderFacts ==
    ASSUME ArchiveIs(archive), archive.r # None
    PROVE  /\ KeptIs(archive.cache) /\ ReaderShape(archive.r)
           /\ ReaderIs(archive.r, archive.file, archive.cache, archive.plain)
           /\ InItsStep(archive.r, KeptOf(archive.cache, archive.r.a, archive.r.stamp),
                        archive.plain[archive.r.a])
           /\ Chunks!SnapshotsOf(archive.r.a)
                = KeptOf(archive.cache, archive.r.a, archive.r.stamp)
           /\ KeptIs(Chunks!WithoutThis)
<1>1. Chunks!SnapshotsOf(archive.r.a) = KeptOf(archive.cache, archive.r.a, archive.r.stamp)
  BY DEF Chunks!SnapshotsOf, KeptOf
<1>2. KeptIs(Chunks!WithoutThis)
  BY KeptLess DEF ArchiveIs, Chunks!WithoutThis
<1> QED BY <1>1, <1>2 DEF ArchiveIs, ReaderIs

\* A reader that leaves.
LEMMA LeavesKeep ==
    ASSUME ArchiveIs(archive), archive.r # None, NEW d, d \subseteq archive.cache,
           archive' = [archive EXCEPT !.r = None, !.cache = d]
    PROVE  ArchiveIs(archive')
<1>1. /\ DOMAIN archive' = DOMAIN archive /\ archive'.r = None /\ archive'.cache = d
      /\ archive'.file = archive.file /\ archive'.plain = archive.plain
  BY DEF ArchiveIs
<1>2. KeptIs(d)
  BY KeptLess DEF ArchiveIs
<1> QED BY <1>1, <1>2, ArchiveWith

LEMMA FailsKeep ==
    ASSUME ArchiveIs(archive), archive.r # None, Chunks!Fails
    PROVE  ArchiveIs(archive')
BY LeavesKeep DEF Chunks!Fails, Chunks!WithoutThis

\* A reader that reads on, in one way or the other.
LEMMA ReadsOn ==
    ASSUME ArchiveIs(archive), Chunks!ArchivesAssumption, archive.r # None,
           NEW q, NEW d, KeptIs(d), DOMAIN q = DOMAIN archive.r,
           q.a = archive.r.a /\ q.stamp = archive.r.stamp /\ q.old = archive.r.old
              /\ q.after = archive.r.after /\ q.intact = archive.r.intact,
           InItsStep(q, KeptOf(d, archive.r.a, archive.r.stamp), archive.plain[archive.r.a]),
           DOMAIN archive' = DOMAIN archive, archive'.r = q, archive'.cache = d,
           archive'.file = archive.file, archive'.plain = archive.plain
    PROVE  ArchiveIs(archive')
<1>1. ReaderIs(archive.r, archive.file, archive.cache, archive.plain)
  BY DEF ArchiveIs
<1>2. ReaderIs(q, archive.file, d, archive.plain)
  BY <1>1, ReaderWith
<1> QED BY <1>2, ArchiveWith

LEMMA LoadKeeps ==
    ASSUME ArchiveIs(archive), Chunks!ArchivesAssumption, Chunks!Load
    PROVE  ArchiveIs(archive')
<1> DEFINE r == archive.r
           kept == KeptOf(archive.cache, r.a, r.stamp)
           found == {s \in kept : s.rotten # Chunks!Root}
           q1 == [r EXCEPT !.step = "read", !.got = <<>>, !.cuts = <<>>]
           less == Chunks!WithoutThis
<1>1. archive.r # None /\ r.step = "load"
  BY DEF Chunks!Load, Chunks!At
<1>2. /\ KeptIs(archive.cache) /\ ReaderShape(r) /\ KeptIs(less)
      /\ InItsStep(r, kept, archive.plain[r.a]) /\ Chunks!SnapshotsOf(r.a) = kept
  BY <1>1, ReaderFacts
<1>3. Unread(r) /\ r.checked = 0
  BY <1>1, <1>2 DEF InItsStep
<1>4. \/ archive' = [archive EXCEPT !.r = q1, !.cache = less]
      \/ \E s \in found : archive' = [archive EXCEPT
            !.r = [r EXCEPT !.step = "check", !.got = s.got, !.cuts = s.cuts]]
  BY <1>2 DEF Chunks!Load, Chunks!Afresh
<1>5. CASE archive' = [archive EXCEPT !.r = q1, !.cache = less]
  <2>1. /\ DOMAIN archive' = DOMAIN archive /\ archive'.r = q1 /\ archive'.cache = less
        /\ archive'.file = archive.file /\ archive'.plain = archive.plain
    BY <1>5 DEF ArchiveIs
  <2>2. /\ DOMAIN q1 = DOMAIN r /\ q1.a = r.a /\ q1.stamp = r.stamp /\ q1.old = r.old
        /\ q1.after = r.after /\ q1.intact = r.intact /\ q1.step = "read" /\ q1.got = <<>>
        /\ q1.cuts = <<>> /\ Unread(q1)
    BY <1>2, <1>3 DEF ReaderShape, Unread
  <2> HIDE DEF q1
  <2>3. InItsStep(q1, KeptOf(less, r.a, r.stamp), archive.plain[r.a])
    BY <2>2, NothingRead DEF InItsStep
  <2> HIDE DEF less
  <2> QED BY <1>1, <1>2, <2>1, <2>2, <2>3, ReadsOn
<1>6. CASE \E s \in found : archive' = [archive EXCEPT
            !.r = [r EXCEPT !.step = "check", !.got = s.got, !.cuts = s.cuts]]
  <2>1. PICK s \in found : archive' = [archive EXCEPT
            !.r = [r EXCEPT !.step = "check", !.got = s.got, !.cuts = s.cuts]]
    BY <1>6
  <2> DEFINE q == [r EXCEPT !.step = "check", !.got = s.got, !.cuts = s.cuts]
  <2>2. /\ DOMAIN archive' = DOMAIN archive /\ archive'.r = q /\ archive'.cache = archive.cache
        /\ archive'.file = archive.file /\ archive'.plain = archive.plain
    BY <2>1 DEF ArchiveIs
  <2>3. /\ DOMAIN q = DOMAIN r /\ q.a = r.a /\ q.stamp = r.stamp /\ q.old = r.old
        /\ q.after = r.after /\ q.intact = r.intact /\ q.step = "check" /\ q.got = s.got
        /\ q.cuts = s.cuts /\ Unread(q) /\ q.checked = 0
    BY <1>2, <1>3 DEF ReaderShape, Unread
  <2>4. s \in kept /\ \A t \in kept : t = s
    BY <1>2 DEF KeptIs, KeptOf
  <2> HIDE DEF q, kept
  <2>5. InItsStep(q, kept, archive.plain[r.a])
    <3>1. Held(q.got, q.old, q.checked)
      BY <2>3 DEF Held
    <3>2. kept # {} /\ \A t \in kept : t.got = q.got /\ t.cuts = q.cuts
      BY <2>3, <2>4
    <3> QED BY <2>3, <3>1, <3>2 DEF InItsStep
  <2> QED BY <1>1, <1>2, <2>2, <2>3, <2>5, ReadsOn DEF kept
<1> QED BY <1>4, <1>5, <1>6

LEMMA CheckKeeps ==
    ASSUME ArchiveIs(archive), Chunks!ArchivesAssumption, Chunks!Check
    PROVE  ArchiveIs(archive')
<1> DEFINE r == archive.r
           kept == KeptOf(archive.cache, r.a, r.stamp)
           less == Chunks!WithoutThis
           i == r.checked + 1
           verified == \E s \in kept : s.verified
           step == IF verified THEN "yield" ELSE "read"
           q1 == [r EXCEPT !.checked = 0, !.step = step]
           q2 == [r EXCEPT !.checked = i]
           q3 == [r EXCEPT !.step = "read", !.got = <<>>, !.cuts = <<>>, !.checked = 0]
<1>1. archive.r # None /\ r.step = "check"
  BY DEF Chunks!Check, Chunks!At
<1>2. /\ KeptIs(archive.cache) /\ ReaderShape(r) /\ KeptIs(less)
      /\ InItsStep(r, kept, archive.plain[r.a]) /\ Chunks!SnapshotsOf(r.a) = kept
  BY <1>1, ReaderFacts
<1>3. /\ Unread(r) /\ r.checked \in Nat /\ Held(r.got, r.old, r.checked) /\ kept # {}
      /\ \A s \in kept : s.got = r.got /\ s.cuts = r.cuts
  BY <1>1, <1>2 DEF InItsStep
<1>4. PICK s \in kept : TRUE
  BY <1>3
<1>5. /\ SnapshotIs(s) /\ \A t \in kept : t = s
  BY <1>2, <1>4 DEF KeptIs, KeptOf
<1>6. GotIs(r.got) /\ CutsAre(r.cuts, Len(r.got)) /\ Len(r.got) \in Nat /\ Blocks \in Nat
      /\ Len(r.got) <= Blocks
  BY <1>3, <1>4, <1>5 DEF SnapshotIs, GotIs, Chunks!ArchivesAssumption
<1>7. \/ i > Len(r.got) /\ archive' = [archive EXCEPT !.r = q1]
      \/ i <= Len(r.got) /\ Chunks!Block(i) = r.got[i] /\ archive' = [archive EXCEPT !.r = q2]
      \/ archive' = [archive EXCEPT !.r = q3, !.cache = less]
  <2>1. i \in Nat
    BY <1>3
  <2>2. (\E t \in Chunks!SnapshotsOf(r.a) : t.verified) <=> verified
    BY <1>2
  <2> DEFINE q0 == IF \E t \in Chunks!SnapshotsOf(r.a) : t.verified THEN "yield" ELSE "read"
  <2>3. q0 = step
    BY <2>2
  <2>4. \/ i > Len(r.got) /\ archive' = [archive EXCEPT !.r.checked = 0, !.r.step = q0]
        \/ ~(i > Len(r.got)) /\ Chunks!Block(i) = r.got[i] /\ archive' = [archive EXCEPT !.r = q2]
        \/ archive' = [archive EXCEPT !.r = q3, !.cache = less]
    BY DEF Chunks!Check, Chunks!Afresh
  <2> HIDE DEF q0, step
  <2>5. [archive EXCEPT !.r.checked = 0, !.r.step = q0] = [archive EXCEPT !.r = q1]
    BY <2>3 DEF ArchiveIs
  <2> QED BY <1>6, <2>1, <2>4, <2>5
<1>8. CASE i > Len(r.got) /\ archive' = [archive EXCEPT !.r = q1]
  <2>1. /\ DOMAIN archive' = DOMAIN archive /\ archive'.r = q1 /\ archive'.cache = archive.cache
        /\ archive'.file = archive.file /\ archive'.plain = archive.plain
    BY <1>8 DEF ArchiveIs
  <2>2. /\ DOMAIN q1 = DOMAIN r /\ q1.a = r.a /\ q1.stamp = r.stamp /\ q1.old = r.old
        /\ q1.after = r.after /\ q1.intact = r.intact /\ q1.step = step /\ q1.got = r.got
        /\ q1.cuts = r.cuts /\ q1.out = r.out /\ q1.next = r.next /\ q1.cached = r.cached
    BY <1>2 DEF ReaderShape
  <2>3. Held(r.got, r.old, Len(r.got))
    BY <1>3, <1>6, <1>8 DEF Held
  <2> HIDE DEF q1
  <2>4. CASE verified
    <3>1. s.verified
      BY <1>5, <2>4
    <3>2. r.got = Chunks!Right
      BY <1>3, <1>4, <1>5, <3>1 DEF SnapshotIs
    <3>3. Len(Chunks!Right) = Blocks
      BY <1>6 DEF Chunks!Right
    <3>4. r.old = Chunks!Right
      BY <1>2, <2>3, <3>2, <3>3, AllHeld
    <3>5. r.after \in Nat
      BY <1>2 DEF ReaderShape
    <3>6. Chunks!Parsed(Chunks!Right, 0, Edge(s.cuts, 0), r.after) = <<>>
      BY <3>5, PageEnds DEF Edge
    <3>7. r.out = <<>> /\ r.next = 1
      BY <1>3 DEF Unread
    <3>8. \A t \in kept : t.verified /\ q1.next <= Len(t.cuts) + 1
             /\ q1.out = Chunks!Parsed(Chunks!Right, 0, Edge(t.cuts, q1.next - 1), q1.after)
      <4>1. q1.next = 1 /\ 1 - 1 = 0 /\ q1.out = <<>> /\ q1.after = r.after
        BY <2>2, <3>7
      <4>2. Len(s.cuts) \in Nat
        BY <1>5 DEF SnapshotIs, CutsAre
      <4> HIDE DEF kept
      <4> QED BY <1>5, <3>1, <3>6, <4>1, <4>2
    <3>9. step = "yield"
      BY <2>4
    <3> HIDE DEF kept, step
    <3>10. InItsStep(q1, kept, archive.plain[r.a])
      BY <1>3, <2>2, <3>4, <3>7, <3>8, <3>9 DEF InItsStep
    <3> QED BY <1>1, <1>2, <2>1, <2>2, <3>10, ReadsOn DEF kept
  <2>5. CASE ~verified
    <3>1. step = "read"
      BY <2>5
    <3> HIDE DEF kept, step
    <3>2. InItsStep(q1, kept, archive.plain[r.a])
      BY <1>3, <1>6, <2>2, <2>3, <3>1 DEF InItsStep, Unread
    <3> QED BY <1>1, <1>2, <2>1, <2>2, <3>2, ReadsOn DEF kept
  <2> QED BY <2>4, <2>5
<1>9. CASE i <= Len(r.got) /\ Chunks!Block(i) = r.got[i] /\ archive' = [archive EXCEPT !.r = q2]
  <2>1. /\ DOMAIN archive' = DOMAIN archive /\ archive'.r = q2 /\ archive'.cache = archive.cache
        /\ archive'.file = archive.file /\ archive'.plain = archive.plain
    BY <1>9 DEF ArchiveIs
  <2>2. /\ DOMAIN q2 = DOMAIN r /\ q2.a = r.a /\ q2.stamp = r.stamp /\ q2.old = r.old
        /\ q2.after = r.after /\ q2.intact = r.intact /\ q2.step = "check" /\ q2.got = r.got
        /\ q2.cuts = r.cuts /\ q2.out = r.out /\ q2.next = r.next /\ q2.cached = r.cached
        /\ q2.checked = r.checked + 1
    BY <1>1, <1>2 DEF ReaderShape
  <2> HIDE DEF q2
  <2>3. i \in 1..Blocks
    BY <1>3, <1>6, <1>9
  <2>4. r.got[i] = "right" => r.old[i] = "right"
    BY <1>1, <1>9, <2>3, BlockIs
  <2>5. Held(q2.got, q2.old, q2.checked) /\ q2.checked \in Nat
    BY <1>3, <2>2, <2>4 DEF Held
  <2> HIDE DEF kept
  <2>6. InItsStep(q2, kept, archive.plain[r.a])
    BY <1>3, <2>2, <2>5 DEF InItsStep, Unread
  <2> QED BY <1>1, <1>2, <2>1, <2>2, <2>6, ReadsOn DEF kept
<1>10. CASE archive' = [archive EXCEPT !.r = q3, !.cache = less]
  <2>1. /\ DOMAIN archive' = DOMAIN archive /\ archive'.r = q3 /\ archive'.cache = less
        /\ archive'.file = archive.file /\ archive'.plain = archive.plain
    BY <1>10 DEF ArchiveIs
  <2>2. /\ DOMAIN q3 = DOMAIN r /\ q3.a = r.a /\ q3.stamp = r.stamp /\ q3.old = r.old
        /\ q3.after = r.after /\ q3.intact = r.intact /\ q3.step = "read" /\ q3.got = <<>>
        /\ q3.cuts = <<>> /\ Unread(q3)
    BY <1>2, <1>3 DEF ReaderShape, Unread
  <2> HIDE DEF q3
  <2>3. InItsStep(q3, KeptOf(less, r.a, r.stamp), archive.plain[r.a])
    BY <2>2, NothingRead DEF InItsStep
  <2> HIDE DEF less
  <2> QED BY <1>1, <1>2, <2>1, <2>2, <2>3, ReadsOn
<1> QED BY <1>7, <1>8, <1>9, <1>10

\* One block more is read.
LEMMA OneMore ==
    ASSUME ArchiveIs(archive), archive.r # None, Chunks!ArchivesAssumption,
           NEW got, NEW cuts, GotIs(got), CutsAre(cuts, Len(got)),
           Held(got, archive.r.old, Len(got)), Len(got) < Blocks,
           NEW more, more = Append(got, Chunks!Block(Len(got) + 1))
    PROVE  /\ GotIs(more) /\ CutsAre(cuts, Len(more)) /\ Held(more, archive.r.old, Len(more))
           /\ Len(more) = Len(got) + 1 /\ more[Len(more)] = Chunks!Block(Len(got) + 1)
           /\ SameUpTo(got, more, Len(got))
<1> DEFINE n == Len(got)
           b == Chunks!Block(n + 1)
           old == archive.r.old
<1>1. n \in Nat /\ n + 1 \in 1..Blocks /\ Blocks \in Nat /\ got \in Seq(Chunks!Content)
  BY DEF GotIs, Chunks!ArchivesAssumption
<1>2. b \in Chunks!Content /\ (b = "right" => old[n + 1] = "right")
  BY <1>1, BlockIs
<1> HIDE DEF b
<1>3. /\ more \in Seq(Chunks!Content) /\ Len(more) = n + 1 /\ more[n + 1] = b
      /\ \A i \in 1..n : got[i] = more[i]
  BY <1>1, <1>2 DEF b
<1>4. GotIs(more)
  BY <1>1, <1>3 DEF GotIs
<1>5. CutsAre(cuts, Len(more))
  <2>1. cuts \in Seq(Nat) /\ Len(cuts) \in Nat
    BY DEF CutsAre
  <2>2. \A i \in 1..Len(cuts) : cuts[i] \in Nat
    BY <2>1
  <2> QED BY <1>1, <1>3, <2>1, <2>2 DEF CutsAre
<1>6. Held(more, old, Len(more))
  <2> HIDE DEF old
  <2>1. \A i \in 1..n : got[i] = "right" => old[i] = "right"
    BY <1>1 DEF Held, old
  <2> QED BY <1>1, <1>2, <1>3, <2>1 DEF Held
<1> QED BY <1>3, <1>4, <1>5, <1>6 DEF b, SameUpTo

\* A reader that goes over to the stream.
LEMMA ToStreamKeeps ==
    ASSUME ArchiveIs(archive), archive.r # None, Chunks!ArchivesAssumption,
           Unread(archive.r), NEW d, d \subseteq archive.cache,
           DOMAIN archive' = DOMAIN archive, archive'.cache = d,
           archive'.r = [archive.r EXCEPT !.step = "stream", !.got = <<>>, !.cuts = <<>>],
           archive'.file = archive.file, archive'.plain = archive.plain
    PROVE  ArchiveIs(archive')
<1> DEFINE r == archive.r
           q == [r EXCEPT !.step = "stream", !.got = <<>>, !.cuts = <<>>]
<1>1. /\ DOMAIN archive' = DOMAIN archive /\ archive'.r = q /\ archive'.cache = d
      /\ archive'.file = archive.file /\ archive'.plain = archive.plain
  OBVIOUS
<1>2. ReaderShape(r) /\ KeptIs(d)
  BY ReaderFacts, KeptLess
<1>3. /\ DOMAIN q = DOMAIN r /\ q.a = r.a /\ q.stamp = r.stamp /\ q.old = r.old
      /\ q.after = r.after /\ q.intact = r.intact /\ q.step = "stream" /\ q.got = <<>>
      /\ q.cuts = <<>> /\ Unread(q)
  BY <1>2 DEF ReaderShape, Unread
<1> HIDE DEF q
<1>4. Chunks!Parsed(<<>>, 0, Len(<<>>), r.after) = <<>>
  BY <1>2, PageEnds DEF ReaderShape
<1>5. InItsStep(q, KeptOf(d, r.a, r.stamp), archive.plain[r.a])
  BY <1>3, <1>4, NothingRead DEF InItsStep, Unread
<1> QED BY <1>1, <1>2, <1>3, <1>5, ReadsOn

LEMMA ReadKeeps ==
    ASSUME ArchiveIs(archive), Chunks!ArchivesAssumption, Chunks!Read
    PROVE  ArchiveIs(archive')
<1> DEFINE r == archive.r
           kept == KeptOf(archive.cache, r.a, r.stamp)
           b == Chunks!Block(Len(r.got) + 1)
           more == Append(r.got, b)
           q == [r EXCEPT !.got = more, !.step = "save"]
<1>1. archive.r # None /\ r.step = "read" /\ Len(r.got) < Blocks
  BY DEF Chunks!Read, Chunks!At
<1>2. /\ KeptIs(archive.cache) /\ ReaderShape(r) /\ InItsStep(r, kept, archive.plain[r.a])
  BY <1>1, ReaderFacts
<1>3. /\ Unread(r) /\ GotIs(r.got) /\ CutsAre(r.cuts, Len(r.got)) /\ Held(r.got, r.old, Len(r.got))
  BY <1>1, <1>2 DEF InItsStep
<1>4. \/ archive' = [archive EXCEPT !.r.got = more, !.r.step = "save"]
      \/ Chunks!Fails
      \/ archive' = [archive EXCEPT !.r = [r EXCEPT !.step = "stream", !.got = <<>>, !.cuts = <<>>],
                        !.cache = Chunks!WithoutThis]
  BY DEF Chunks!Read, Chunks!ToStream
<1>5. CASE archive' = [archive EXCEPT !.r.got = more, !.r.step = "save"]
  <2> HIDE DEF b
  <2>1. /\ DOMAIN archive' = DOMAIN archive /\ archive'.r = q /\ archive'.cache = archive.cache
        /\ archive'.file = archive.file /\ archive'.plain = archive.plain
    BY <1>5 DEF ArchiveIs
  <2>2. /\ DOMAIN q = DOMAIN r /\ q.a = r.a /\ q.stamp = r.stamp /\ q.old = r.old
        /\ q.after = r.after /\ q.intact = r.intact /\ q.step = "save" /\ q.got = more
        /\ q.cuts = r.cuts /\ q.out = r.out /\ q.next = r.next /\ q.cached = r.cached
    BY <1>2 DEF ReaderShape
  <2> HIDE DEF q
  <2>3. GotIs(more) /\ CutsAre(r.cuts, Len(more)) /\ Held(more, r.old, Len(more))
    BY <1>1, <1>3, OneMore DEF b
  <2> HIDE DEF more, kept
  <2>4. InItsStep(q, kept, archive.plain[r.a])
    BY <1>3, <2>2, <2>3 DEF InItsStep, Unread
  <2> QED BY <1>1, <1>2, <2>1, <2>2, <2>4, ReadsOn DEF kept
<1>6. CASE Chunks!Fails
  BY <1>1, <1>6, FailsKeep
<1>7. CASE archive' = [archive EXCEPT
                !.r = [r EXCEPT !.step = "stream", !.got = <<>>, !.cuts = <<>>],
                !.cache = Chunks!WithoutThis]
  <2>1. Chunks!WithoutThis \subseteq archive.cache
    BY DEF Chunks!WithoutThis
  <2> DEFINE less == Chunks!WithoutThis
  <2> HIDE DEF less
  <2>2. /\ DOMAIN archive' = DOMAIN archive /\ archive'.cache = less
        /\ archive'.r = [r EXCEPT !.step = "stream", !.got = <<>>, !.cuts = <<>>]
        /\ archive'.file = archive.file /\ archive'.plain = archive.plain
    BY <1>7 DEF ArchiveIs, less
  <2> QED BY <1>1, <1>3, <2>1, <2>2, ToStreamKeeps DEF less
<1> QED BY <1>4, <1>5, <1>6, <1>7

\* A chunk is cut where an entry has ended since the last one.
LEMMA CutIs ==
    ASSUME Chunks!ArchivesAssumption, NEW r, GotIs(r.got), CutsAre(r.cuts, Len(r.got)),
           NEW cuts, cuts = Chunks!Cut(r)
    PROVE  /\ CutsAre(cuts, Len(r.got))
           /\ Chunks!Ended(Edge(cuts, Len(cuts))) = Chunks!Ended(Len(r.got))
<1> DEFINE n == Len(r.cuts)
           last == IF r.cuts = <<>> THEN 0 ELSE r.cuts[n]
           g == Len(r.got)
<1>1. n \in Nat /\ r.cuts \in Seq(Nat) /\ g \in Nat /\ (r.cuts = <<>> <=> n = 0)
      /\ \A i \in 1..n : r.cuts[i] \in Nat /\ r.cuts[i] <= g /\ Edge(r.cuts, i - 1) <= r.cuts[i]
  BY DEF CutsAre, GotIs
<1>2. last = Edge(r.cuts, n) /\ last \in Nat /\ last <= g
  BY <1>1 DEF Edge
<1>3. cuts = IF Chunks!Ended(g) = Chunks!Ended(last) THEN r.cuts ELSE Append(r.cuts, g)
  BY DEF Chunks!Cut, Chunks!Last
<1>4. CASE Chunks!Ended(g) = Chunks!Ended(last)
  BY <1>1, <1>2, <1>3, <1>4 DEF CutsAre
<1>5. CASE Chunks!Ended(g) # Chunks!Ended(last)
  <2> HIDE DEF n, last, g
  <2>1. cuts = Append(r.cuts, g)
    BY <1>3, <1>5
  <2>2. cuts \in Seq(Nat) /\ Len(cuts) = n + 1 /\ cuts[n + 1] = g
        /\ \A i \in 1..n : cuts[i] = r.cuts[i]
    BY <1>1, <2>1 DEF n
  <2>3. ASSUME NEW i \in 1..(n + 1) PROVE Edge(cuts, i - 1) = Edge(r.cuts, i - 1)
    <3> DEFINE k == i - 1
    <3>1. k = 0 \/ k \in 1..n
      BY <1>1
    <3> HIDE DEF k
    <3>2. Edge(cuts, k) = Edge(r.cuts, k)
      BY <2>2, <3>1 DEF Edge
    <3> QED BY <3>2 DEF k
  <2>4. Edge(cuts, Len(cuts)) = g
    BY <1>1, <2>2 DEF Edge
  <2>5. ASSUME NEW i \in 1..Len(cuts) PROVE cuts[i] <= g /\ Edge(cuts, i - 1) <= cuts[i]
    <3>1. CASE i = n + 1
      <4>1. i - 1 = n /\ cuts[i] = g /\ Edge(cuts, i - 1) = Edge(r.cuts, i - 1)
        BY <1>1, <2>2, <2>3, <3>1
      <4> QED BY <1>1, <1>2, <4>1
    <3>2. CASE i \in 1..n
      <4>1. cuts[i] = r.cuts[i] /\ Edge(cuts, i - 1) = Edge(r.cuts, i - 1)
        BY <1>1, <2>2, <2>3, <3>2
      <4> QED BY <1>1, <3>2, <4>1
    <3> QED BY <1>1, <2>2, <3>1, <3>2
  <2> QED BY <2>2, <2>4, <2>5 DEF CutsAre, g
<1> QED BY <1>4, <1>5

LEMMA SaveKeeps ==
    ASSUME ArchiveIs(archive), Chunks!ArchivesAssumption, Chunks!Save
    PROVE  ArchiveIs(archive')
<1> DEFINE r == archive.r
           kept == KeptOf(archive.cache, r.a, r.stamp)
           less == Chunks!WithoutThis
           done == Len(r.got) = Blocks
           cuts == Chunks!Cut(r)
           s == [a |-> r.a, stamp |-> r.stamp, got |-> r.got, cuts |-> cuts,
                 verified |-> done, rotten |-> 0]
           step == IF done THEN "yield" ELSE "read"
           q1 == [r EXCEPT !.step = "read"]
           q2 == [r EXCEPT !.step = step, !.cuts = cuts]
           q3 == [r EXCEPT !.step = "stream", !.got = <<>>, !.cuts = <<>>]
<1>1. archive.r # None /\ r.step = "save"
  BY DEF Chunks!Save, Chunks!At
<1>2. /\ KeptIs(archive.cache) /\ ReaderShape(r) /\ InItsStep(r, kept, archive.plain[r.a])
      /\ Chunks!SnapshotsOf(r.a) = kept
  BY <1>1, ReaderFacts
<1>3. /\ Unread(r) /\ GotIs(r.got) /\ CutsAre(r.cuts, Len(r.got)) /\ Held(r.got, r.old, Len(r.got))
  BY <1>1, <1>2 DEF InItsStep
<1>4. less = archive.cache \ kept
  BY <1>2 DEF Chunks!WithoutThis
<1>5. \/ Chunks!Fails
      \/ ~done /\ archive' = [archive EXCEPT !.r.step = "read"]
      \/ (done => r.got = Chunks!Right) /\ \E others \in SUBSET less :
            archive' = [archive EXCEPT !.r.step = step, !.r.cuts = cuts, !.cache = others \cup {s}]
      \/ archive' = [archive EXCEPT !.r = q3]
  <2> HIDE DEF less, cuts
  <2> QED BY DEF Chunks!Save, Chunks!Sound, Chunks!ToStream, less, cuts
<1>6. CASE Chunks!Fails
  BY <1>1, <1>6, FailsKeep
<1>7. CASE ~done /\ archive' = [archive EXCEPT !.r.step = "read"]
  <2>1. /\ DOMAIN archive' = DOMAIN archive /\ archive'.r = q1 /\ archive'.cache = archive.cache
        /\ archive'.file = archive.file /\ archive'.plain = archive.plain
    BY <1>7 DEF ArchiveIs
  <2>2. /\ DOMAIN q1 = DOMAIN r /\ q1.a = r.a /\ q1.stamp = r.stamp /\ q1.old = r.old
        /\ q1.after = r.after /\ q1.intact = r.intact /\ q1.step = "read" /\ q1.got = r.got
        /\ q1.cuts = r.cuts /\ q1.out = r.out /\ q1.next = r.next /\ q1.cached = r.cached
    BY <1>2 DEF ReaderShape
  <2> HIDE DEF q1, kept
  <2>3. InItsStep(q1, kept, archive.plain[r.a])
    BY <1>3, <2>2 DEF InItsStep, Unread
  <2> QED BY <1>1, <1>2, <2>1, <2>2, <2>3, ReadsOn DEF kept
<1>8. CASE (done => r.got = Chunks!Right) /\ \E others \in SUBSET less :
            archive' = [archive EXCEPT !.r.step = step, !.r.cuts = cuts, !.cache = others \cup {s}]
  <2>1. PICK others \in SUBSET less :
            archive' = [archive EXCEPT !.r.step = step, !.r.cuts = cuts, !.cache = others \cup {s}]
    BY <1>8
  <2> DEFINE d == others \cup {s}
  <2>2. CutsAre(cuts, Len(r.got)) /\ Chunks!Ended(Edge(cuts, Len(cuts))) = Chunks!Ended(Len(r.got))
    <3> HIDE DEF cuts
    <3> QED BY <1>3, CutIs DEF cuts
  <2>3. /\ s.a = r.a /\ s.stamp = r.stamp /\ s.got = r.got /\ s.cuts = cuts
        /\ (s.verified <=> done)
        /\ {"a", "stamp", "got", "cuts", "verified", "rotten"} \subseteq DOMAIN s
    OBVIOUS
  <2> HIDE DEF cuts
  <2>4. /\ DOMAIN archive' = DOMAIN archive /\ archive'.r = q2 /\ archive'.cache = d
        /\ archive'.file = archive.file /\ archive'.plain = archive.plain
    <3> HIDE DEF d, step
    <3> QED BY <2>1 DEF ArchiveIs, d
  <2> HIDE DEF s
  <2>5. SnapshotIs(s)
    BY <1>3, <1>8, <2>2, <2>3 DEF SnapshotIs
  <2>6. KeptIs(d) /\ KeptOf(d, r.a, r.stamp) = {s}
    <3> DEFINE a == r.a
               stamp == r.stamp
               c == archive.cache
    <3>1. others \subseteq c \ KeptOf(c, a, stamp)
      BY <1>4
    <3>2. KeptIs(c) /\ s.a = a /\ s.stamp = stamp
      BY <1>2, <2>3
    <3> HIDE DEF a, stamp, c, less, kept
    <3>3. KeptIs(others \cup {s}) /\ KeptOf(others \cup {s}, a, stamp) = {s}
      BY <2>5, <3>1, <3>2 DEF KeptIs, KeptOf
    <3> QED BY <3>3 DEF a, stamp
  <2>7. /\ DOMAIN q2 = DOMAIN r /\ q2.a = r.a /\ q2.stamp = r.stamp /\ q2.old = r.old
        /\ q2.after = r.after /\ q2.intact = r.intact /\ q2.step = step /\ q2.got = r.got
        /\ q2.cuts = cuts /\ q2.out = r.out /\ q2.next = r.next /\ q2.cached = r.cached
    BY <1>2 DEF ReaderShape
  <2> HIDE DEF q2, d
  <2>8. InItsStep(q2, KeptOf(d, r.a, r.stamp), archive.plain[r.a])
    <3>1. CASE done
      <4>1. r.got = Chunks!Right /\ s.verified /\ step = "yield"
        BY <1>8, <2>3, <3>1
      <4>2. r.old = Chunks!Right
        BY <1>2, <1>3, <3>1, <4>1, AllHeld
      <4>3. r.after \in Nat
        BY <1>2 DEF ReaderShape
      <4>4. Chunks!Parsed(Chunks!Right, 0, Edge(s.cuts, 0), r.after) = <<>>
        BY <4>3, PageEnds DEF Edge
      <4>5. q2.next = 1 /\ 1 - 1 = 0 /\ q2.out = <<>>
        BY <1>3, <2>7 DEF Unread
      <4>6. Len(s.cuts) \in Nat
        BY <2>2, <2>3 DEF CutsAre
      <4> HIDE DEF step, done
      <4> QED BY <2>6, <2>7, <4>1, <4>2, <4>4, <4>5, <4>6 DEF InItsStep
    <3>2. CASE ~done
      <4>1. step = "read"
        BY <3>2
      <4> HIDE DEF step, done
      <4> QED BY <1>3, <2>2, <2>7, <4>1 DEF InItsStep, Unread
    <3> QED BY <3>1, <3>2
  <2> HIDE DEF step
  <2> QED BY <1>1, <2>4, <2>6, <2>7, <2>8, ReadsOn
<1>9. CASE archive' = [archive EXCEPT !.r = q3]
  <2>1. /\ DOMAIN archive' = DOMAIN archive /\ archive'.r = q3 /\ archive'.cache = archive.cache
        /\ archive'.file = archive.file /\ archive'.plain = archive.plain
    BY <1>9 DEF ArchiveIs
  <2> QED BY <1>1, <1>3, <2>1, ToStreamKeeps
<1> QED BY <1>5, <1>6, <1>7, <1>8, <1>9

LEMMA YieldKeeps ==
    ASSUME ArchiveIs(archive), Chunks!ArchivesAssumption, Chunks!Yield
    PROVE  ArchiveIs(archive')
<1> DEFINE r == archive.r
           kept == KeptOf(archive.cache, r.a, r.stamp)
           k == r.next
           s == CHOOSE t \in kept : TRUE
           from == IF k = 1 THEN 0 ELSE s.cuts[k - 1]
           es == Chunks!Parsed(s.got, from, s.cuts[k], r.after)
           all == Chunks!Parsed(Chunks!Right, 0, Blocks, r.after)
           q1 == [r EXCEPT !.step = "done", !.cached = TRUE]
           q2 == [r EXCEPT !.next = k + 1, !.out = r.out \o es, !.cached = TRUE]
<1>1. archive.r # None /\ r.step = "yield"
  BY DEF Chunks!Yield, Chunks!At
<1>2. /\ KeptIs(archive.cache) /\ ReaderShape(r) /\ InItsStep(r, kept, archive.plain[r.a])
      /\ Chunks!SnapshotsOf(r.a) = kept
  BY <1>1, ReaderFacts
<1>3. /\ r.old = Chunks!Right /\ k \in Nat \ {0} /\ kept # {}
      /\ \A t \in kept : /\ t.verified /\ k <= Len(t.cuts) + 1
                         /\ r.out = Chunks!Parsed(Chunks!Right, 0, Edge(t.cuts, k - 1), r.after)
  BY <1>1, <1>2 DEF InItsStep
<1>4. s \in kept
  BY <1>3
<1>5. SnapshotIs(s) /\ \A t \in kept : t = s
  BY <1>2, <1>4 DEF KeptIs, KeptOf
<1>6. \/ k > Len(s.cuts) /\ archive' = [archive EXCEPT !.r.step = "done", !.r.cached = TRUE]
      \/ Chunks!Fails
      \/ ~(k > Len(s.cuts)) /\ archive' = [archive EXCEPT !.r.next = k + 1,
                                !.r.out = r.out \o es, !.r.cached = TRUE]
  <2> DEFINE c == CHOOSE t \in Chunks!SnapshotsOf(r.a) : TRUE
             start == IF k = 1 THEN 0 ELSE c.cuts[k - 1]
             page == Chunks!Parsed(c.got, start, c.cuts[k], r.after)
  <2>1. c = s
    BY <1>2
  <2>2. \/ k > Len(c.cuts) /\ archive' = [archive EXCEPT !.r.step = "done", !.r.cached = TRUE]
        \/ Chunks!Fails
        \/ ~(k > Len(c.cuts)) /\ archive' = [archive EXCEPT !.r.next = k + 1,
                                !.r.out = r.out \o page, !.r.cached = TRUE]
    BY DEF Chunks!Yield
  <2> HIDE DEF kept, s, c
  <2>3. page = es
    BY <2>1
  <2> HIDE DEF page, es
  <2> QED BY <2>1, <2>2, <2>3
<1> HIDE DEF s
<1>7. /\ s.verified /\ k <= Len(s.cuts) + 1 /\ s.got = Chunks!Right
      /\ r.out = Chunks!Parsed(Chunks!Right, 0, Edge(s.cuts, k - 1), r.after)
      /\ Chunks!Ended(Edge(s.cuts, Len(s.cuts))) = Chunks!Ended(Blocks)
      /\ s.cuts \in Seq(Nat) /\ Len(s.cuts) \in Nat
      /\ \A i \in 1..Len(s.cuts) : Edge(s.cuts, i - 1) <= s.cuts[i]
  BY <1>3, <1>4, <1>5 DEF SnapshotIs, CutsAre
<1>8. r.after \in Nat /\ Blocks \in Nat
  BY <1>2 DEF ReaderShape, Chunks!ArchivesAssumption
<1>9. \A i \in 0..Len(s.cuts) : Edge(s.cuts, i) \in Nat
  BY <1>7 DEF Edge
<1>10. CASE k > Len(s.cuts) /\ archive' = [archive EXCEPT !.r.step = "done", !.r.cached = TRUE]
  <2>1. /\ DOMAIN archive' = DOMAIN archive /\ archive'.r = q1 /\ archive'.cache = archive.cache
        /\ archive'.file = archive.file /\ archive'.plain = archive.plain
    BY <1>10 DEF ArchiveIs
  <2>2. /\ DOMAIN q1 = DOMAIN r /\ q1.a = r.a /\ q1.stamp = r.stamp /\ q1.old = r.old
        /\ q1.after = r.after /\ q1.intact = r.intact /\ q1.step = "done" /\ q1.out = r.out
    BY <1>2 DEF ReaderShape
  <2>3. k - 1 = Len(s.cuts) /\ Edge(s.cuts, Len(s.cuts)) \in Nat
    BY <1>3, <1>7, <1>9, <1>10
  <2>4. r.out = all
    <3> DEFINE e == Edge(s.cuts, Len(s.cuts))
    <3>1. e \in Nat /\ Chunks!Ended(e) = Chunks!Ended(Blocks)
          /\ r.out = Chunks!Parsed(Chunks!Right, 0, e, r.after)
      BY <1>7, <2>3
    <3> HIDE DEF e
    <3>2. Chunks!Parsed(Chunks!Right, 0, e, r.after) = all
      BY <1>8, <3>1, PageEnds
    <3> QED BY <3>1, <3>2
  <2>5. r.intact
    BY <1>2, <1>3 DEF ReaderShape
  <2> HIDE DEF q1, kept
  <2>6. InItsStep(q1, kept, archive.plain[r.a])
    BY <2>2, <2>4, <2>5 DEF InItsStep
  <2> QED BY <1>1, <1>2, <2>1, <2>2, <2>6, ReadsOn DEF kept
<1>11. CASE Chunks!Fails
  BY <1>1, <1>11, FailsKeep
<1>12. CASE ~(k > Len(s.cuts)) /\ archive' = [archive EXCEPT !.r.next = k + 1,
                                !.r.out = r.out \o es, !.r.cached = TRUE]
  <2> DEFINE out == r.out \o es
  <2>1. k \in 1..Len(s.cuts)
    BY <1>3, <1>7, <1>12
  <2>2. from = Edge(s.cuts, k - 1) /\ s.cuts[k] = Edge(s.cuts, k)
    BY <1>3 DEF Edge
  <2>3. from \in Nat /\ s.cuts[k] \in Nat /\ 0 <= from /\ from <= s.cuts[k]
    <3>1. k - 1 \in 0..Len(s.cuts) /\ k \in 0..Len(s.cuts)
      BY <1>7, <2>1
    <3> DEFINE e == Edge(s.cuts, k - 1)
               c == s.cuts[k]
    <3>2. e \in Nat
      BY <1>9, <3>1
    <3>3. c \in Nat
      BY <1>9, <2>2, <3>1
    <3>4. e <= c
      BY <1>7, <2>1
    <3> HIDE DEF from, e, c
    <3>5. from = e
      BY <2>2 DEF e
    <3>6. from \in Nat /\ c \in Nat /\ 0 <= from /\ from <= c
      BY <3>2, <3>3, <3>4, <3>5
    <3> QED BY <3>6 DEF c
  <2>4. out = Chunks!Parsed(Chunks!Right, 0, Edge(s.cuts, k), r.after)
    <3> DEFINE c == s.cuts[k]
               R == Chunks!Right
               after == r.after
    <3>1. es = Chunks!Parsed(R, from, c, after) /\ r.out = Chunks!Parsed(R, 0, from, after)
          /\ Edge(s.cuts, k) = c /\ after \in Nat /\ c \in Nat /\ from <= c
      BY <1>7, <1>8, <2>2, <2>3
    <3> HIDE DEF from, c, es, R, after
    <3>2. Join(R, from, c, after)
      BY <2>3, <3>1, PagesJoin
    <3>3. Chunks!Parsed(R, 0, from, after) \o Chunks!Parsed(R, from, c, after)
            = Chunks!Parsed(R, 0, c, after)
      BY <3>2, Zenon DEF Join
    <3> QED BY <3>1, <3>3 DEF R, after
  <2> HIDE DEF es, out
  <2>5. /\ DOMAIN archive' = DOMAIN archive /\ archive'.cache = archive.cache
        /\ archive'.r = [r EXCEPT !.next = k + 1, !.out = out, !.cached = TRUE]
        /\ archive'.file = archive.file /\ archive'.plain = archive.plain
    BY <1>12 DEF ArchiveIs, out
  <2> DEFINE q == [r EXCEPT !.next = k + 1, !.out = out, !.cached = TRUE]
  <2>6. /\ DOMAIN q = DOMAIN r /\ q.a = r.a /\ q.stamp = r.stamp /\ q.old = r.old
        /\ q.after = r.after /\ q.intact = r.intact /\ q.step = "yield" /\ q.out = out
        /\ q.next = k + 1
    BY <1>1, <1>2 DEF ReaderShape
  <2>7. k + 1 - 1 = k /\ k + 1 \in Nat \ {0} /\ k + 1 <= Len(s.cuts) + 1
    BY <1>3, <1>7, <2>1
  <2> HIDE DEF q, kept
  <2>8. InItsStep(q, kept, archive.plain[r.a])
    BY <1>3, <1>5, <1>7, <2>4, <2>6, <2>7 DEF InItsStep
  <2> QED BY <1>1, <1>2, <2>5, <2>6, <2>8, ReadsOn DEF kept, q
<1> QED BY <1>6, <1>10, <1>11, <1>12

LEMMA StreamKeeps ==
    ASSUME ArchiveIs(archive), Chunks!ArchivesAssumption, Chunks!Stream
    PROVE  ArchiveIs(archive')
<1> DEFINE r == archive.r
           kept == KeptOf(archive.cache, r.a, r.stamp)
           plain == archive.plain[r.a]
           n == Len(r.got)
           more == Append(r.got, Chunks!Block(n + 1))
           page == Chunks!Parsed(more, n, n + 1, r.after)
           out == IF plain THEN r.out \o page ELSE r.out
           last == IF plain THEN r.out ELSE Chunks!Parsed(r.got, 0, Blocks, r.after)
           q1 == [r EXCEPT !.got = more, !.out = out]
           q2 == [r EXCEPT !.step = "done", !.out = last]
<1>1. archive.r # None /\ r.step = "stream"
  BY DEF Chunks!Stream, Chunks!At
<1>2. /\ KeptIs(archive.cache) /\ ReaderShape(r) /\ InItsStep(r, kept, plain)
  BY <1>1, ReaderFacts
<1>3. /\ GotIs(r.got) /\ CutsAre(r.cuts, Len(r.got)) /\ Held(r.got, r.old, Len(r.got))
      /\ r.cached = FALSE /\ (plain => r.out = Chunks!Parsed(r.got, 0, n, r.after))
  BY <1>1, <1>2 DEF InItsStep
<1>4. n \in Nat /\ Blocks \in Nat /\ n <= Blocks /\ r.after \in Nat
  BY <1>2, <1>3 DEF GotIs, ReaderShape, Chunks!ArchivesAssumption
<1>5. \/ archive' = [archive EXCEPT !.r = None]
      \/ n < Blocks /\ archive' = [archive EXCEPT !.r.got = more, !.r.out = out]
      \/ ~(n < Blocks) /\ r.got = Chunks!Right
            /\ archive' = [archive EXCEPT !.r.step = "done", !.r.out = last]
  BY Zenon DEF Chunks!Stream, Chunks!Sound
<1>6. CASE archive' = [archive EXCEPT !.r = None]
  <2>1. /\ DOMAIN archive' = DOMAIN archive /\ archive'.r = None /\ archive'.cache = archive.cache
        /\ archive'.file = archive.file /\ archive'.plain = archive.plain
    BY <1>6 DEF ArchiveIs
  <2> QED BY <1>2, <2>1, ArchiveWith
<1>7. CASE n < Blocks /\ archive' = [archive EXCEPT !.r.got = more, !.r.out = out]
  <2>1. /\ GotIs(more) /\ CutsAre(r.cuts, Len(more)) /\ Held(more, r.old, Len(more))
        /\ Len(more) = n + 1 /\ SameUpTo(r.got, more, n)
    <3>1. more = Append(r.got, Chunks!Block(Len(r.got) + 1)) /\ Len(r.got) < Blocks
      BY <1>7
    <3> DEFINE got == r.got
               cuts == r.cuts
               old == archive.r.old
    <3>a. /\ GotIs(got) /\ CutsAre(cuts, Len(got)) /\ Held(got, old, Len(got)) /\ archive.r # None
          /\ Len(got) < Blocks /\ more = Append(got, Chunks!Block(Len(got) + 1))
      BY <1>1, <1>3, <3>1
    <3> HIDE DEF more, page, out, last, plain, kept, n, q1, q2, got, cuts
    <3>b. GotIs(more) /\ CutsAre(cuts, Len(more)) /\ Held(more, old, Len(more))
      BY <3>a, OneMore DEF old
    <3> USE DEF n
    <3>2. GotIs(more) /\ CutsAre(r.cuts, Len(more)) /\ Held(more, r.old, Len(more))
      BY <3>b DEF cuts
    <3> DEFINE b == Chunks!Block(Len(r.got) + 1)
    <3>3. r.got \in Seq(Chunks!Content) /\ b \in Chunks!Content
      <4>1. Len(r.got) + 1 \in 1..Blocks
        BY <1>4, <1>7
      <4> QED BY <1>1, <1>3, <4>1, BlockIs DEF GotIs
    <3> HIDE DEF b
    <3>4. more = Append(r.got, b)
      BY <3>1 DEF b
    <3>5. Len(more) = n + 1 /\ SameUpTo(r.got, more, n)
      BY <3>3, <3>4 DEF SameUpTo
    <3> QED BY <3>2, <3>5
  <2>2. plain => out = Chunks!Parsed(more, 0, n + 1, r.after)
    <3> DEFINE after == r.after
               m == n + 1
    <3>1. m \in Nat /\ n <= m
      BY <1>4
    <3> HIDE DEF more, n, m, after
    <3>2. Join(more, n, m, after)
      BY <1>4, <3>1, PagesJoin DEF after
    <3>3. Chunks!Parsed(more, 0, n, after) \o Chunks!Parsed(more, n, m, after)
            = Chunks!Parsed(more, 0, m, after)
      BY <3>2, Zenon DEF Join
    <3>4. Chunks!Parsed(r.got, 0, n, after) = Chunks!Parsed(more, 0, n, after)
      BY <1>4, <2>1, PageSame DEF after
    <3> QED BY <1>3, <3>3, <3>4 DEF after, m
  <2> HIDE DEF page, more, out
  <2>3. /\ DOMAIN archive' = DOMAIN archive /\ archive'.r = q1 /\ archive'.cache = archive.cache
        /\ archive'.file = archive.file /\ archive'.plain = archive.plain
    BY <1>7 DEF ArchiveIs
  <2>4. /\ DOMAIN q1 = DOMAIN r /\ q1.a = r.a /\ q1.stamp = r.stamp /\ q1.old = r.old
        /\ q1.after = r.after /\ q1.intact = r.intact /\ q1.step = "stream" /\ q1.got = more
        /\ q1.cuts = r.cuts /\ q1.out = out /\ q1.cached = FALSE
    BY <1>1, <1>2, <1>3 DEF ReaderShape
  <2> HIDE DEF q1, kept, plain
  <2>5. InItsStep(q1, kept, plain)
    BY <2>1, <2>2, <2>4 DEF InItsStep
  <2> QED BY <1>1, <1>2, <2>3, <2>4, <2>5, ReadsOn DEF kept, plain
<1>8. CASE ~(n < Blocks) /\ r.got = Chunks!Right
            /\ archive' = [archive EXCEPT !.r.step = "done", !.r.out = last]
  <2>1. n = Blocks
    BY <1>4, <1>8
  <2>2. r.intact
    BY <1>2, <1>3, <1>8, <2>1, AllHeld
  <2>3. last = Chunks!Parsed(Chunks!Right, 0, Blocks, r.after)
    BY <1>3, <1>8, <2>1
  <2> HIDE DEF last
  <2>4. /\ DOMAIN archive' = DOMAIN archive /\ archive'.r = q2 /\ archive'.cache = archive.cache
        /\ archive'.file = archive.file /\ archive'.plain = archive.plain
    BY <1>8 DEF ArchiveIs
  <2>5. /\ DOMAIN q2 = DOMAIN r /\ q2.a = r.a /\ q2.stamp = r.stamp /\ q2.old = r.old
        /\ q2.after = r.after /\ q2.intact = r.intact /\ q2.step = "done" /\ q2.out = last
    BY <1>2 DEF ReaderShape
  <2> HIDE DEF q2, kept, plain
  <2>6. InItsStep(q2, kept, plain)
    BY <2>2, <2>3, <2>5 DEF InItsStep
  <2> QED BY <1>1, <1>2, <2>4, <2>5, <2>6, ReadsOn DEF kept, plain
<1> QED BY <1>5, <1>6, <1>7, <1>8

\* What happens to the files while they are read.
LEMMA FilesWith ==
    ASSUME ArchiveIs(archive), DOMAIN archive' = DOMAIN archive, archive'.r = archive.r,
           archive'.cache = archive.cache, archive'.plain = archive.plain,
           FilesAre(archive'.file),
           archive.r # None => Opened(archive.r, archive'.file)
    PROVE  ArchiveIs(archive')
BY DEF ArchiveIs, ReaderIs

LEMMA RotsAwayKeeps ==
    ASSUME ArchiveIs(archive), NEW a \in Archives, NEW i \in 1..Blocks, Chunks!RotsAway(a, i)
    PROVE  ArchiveIs(archive')
<1> DEFINE f == archive.file
           g == archive'.file
           r == archive.r
<1>1. FilesAre(f) /\ (r # None => ReaderShape(r) /\ Opened(r, f))
  BY DEF ArchiveIs, ReaderIs
<1>2. /\ DOMAIN archive' = DOMAIN archive /\ archive'.r = r /\ archive'.cache = archive.cache
      /\ archive'.plain = archive.plain /\ g = [f EXCEPT ![a].blocks[i] = "wrong"]
  BY DEF ArchiveIs, Chunks!RotsAway
<1> HIDE DEF f, g
<1>3. FilesAre(g)
  BY <1>1, <1>2 DEF FilesAre, Chunks!Content
<1>4. \A b \in Archives : /\ g[b].stamp = f[b].stamp
                          /\ \A j \in 1..Blocks : g[b].blocks[j] = "right"
                               => f[b].blocks[j] = "right"
  BY <1>1, <1>2 DEF FilesAre
<1>5. r # None => Opened(r, g)
  BY <1>1, <1>4 DEF Opened, ReaderShape
<1> QED BY <1>2, <1>3, <1>5, FilesWith DEF g

LEMMA RestoreKeeps ==
    ASSUME ArchiveIs(archive), NEW a \in Archives, Chunks!RestoresFile(a)
    PROVE  ArchiveIs(archive')
<1> DEFINE f == archive.file
           g == archive'.file
           r == archive.r
           e == [blocks |-> Chunks!Right, stamp |-> f[a].stamp + 1]
<1>1. FilesAre(f) /\ (r # None => ReaderShape(r) /\ Opened(r, f))
  BY DEF ArchiveIs, ReaderIs
<1>2. /\ DOMAIN archive' = DOMAIN archive /\ archive'.r = r /\ archive'.cache = archive.cache
      /\ archive'.plain = archive.plain /\ g = [f EXCEPT ![a] = e]
  BY DEF ArchiveIs, Chunks!RestoresFile
<1> HIDE DEF f, g
<1>3. f[a].stamp \in Nat /\ Chunks!Right \in [1..Blocks -> Chunks!Content]
  BY <1>1 DEF FilesAre, Chunks!Right, Chunks!Content
<1>4. e \in [blocks : [1..Blocks -> Chunks!Content], stamp : Nat]
  BY <1>3
<1>5. FilesAre(g)
  <2> HIDE DEF e
  <2> QED BY <1>1, <1>2, <1>4 DEF FilesAre
<1>6. /\ \A b \in Archives : b # a => g[b] = f[b]
      /\ g[a].stamp = f[a].stamp + 1
  BY <1>1, <1>2 DEF FilesAre
<1>7. r # None => Opened(r, g)
  <2> HAVE r # None
  <2>1. CASE r.a = a
    <3>1. r.stamp \in Nat /\ r.stamp <= f[a].stamp
      BY <1>1, <2>1 DEF Opened, ReaderShape
    <3> QED BY <1>3, <1>6, <2>1, <3>1 DEF Opened
  <2>2. CASE r.a # a
    BY <1>1, <1>6, <2>2 DEF Opened, ReaderShape
  <2> QED BY <2>1, <2>2
<1> QED BY <1>2, <1>5, <1>7, FilesWith DEF g

\* A reader goes by what its snapshot holds.
LEMMA KeptSame ==
    ASSUME NEW r, NEW plain, NEW kept, InItsStep(r, kept, plain),
           NEW now, kept # {} => now # {},
           \A t \in now : \E s \in kept :
                t.got = s.got /\ t.cuts = s.cuts /\ t.verified = s.verified
    PROVE  InItsStep(r, now, plain)
<1>1. r.step = "check" => now # {} /\ \A s \in now : s.got = r.got /\ s.cuts = r.cuts
  BY DEF InItsStep
<1>2. r.step = "yield" =>
        /\ now # {}
        /\ \A s \in now :
            /\ s.verified /\ r.next <= Len(s.cuts) + 1
            /\ r.out = Chunks!Parsed(Chunks!Right, 0, Edge(s.cuts, r.next - 1), r.after)
  BY DEF InItsStep
<1> QED BY <1>1, <1>2 DEF InItsStep

LEMMA RowRotsKeeps ==
    ASSUME ArchiveIs(archive), NEW s \in archive.cache, NEW row, Chunks!RowRots(s, row)
    PROVE  ArchiveIs(archive')
<1> DEFINE r == archive.r
           c == archive.cache
           t == [s EXCEPT !.rotten = row]
           d == (c \ {s}) \cup {t}
<1>1. /\ DOMAIN archive' = DOMAIN archive /\ archive'.r = r /\ archive'.cache = d
      /\ archive'.plain = archive.plain /\ archive'.file = archive.file
  BY DEF ArchiveIs, Chunks!RowRots
<1>2. KeptIs(c) /\ SnapshotIs(s) /\ (r # None => ReaderIs(r, archive.file, c, archive.plain))
  BY DEF ArchiveIs, KeptIs
<1>3. /\ DOMAIN t = DOMAIN s /\ t.a = s.a /\ t.stamp = s.stamp /\ t.got = s.got
      /\ t.cuts = s.cuts /\ t.verified = s.verified
  BY <1>2 DEF SnapshotIs
<1> HIDE DEF t, c
<1>4. SnapshotIs(t)
  BY <1>2, <1>3 DEF SnapshotIs
<1>5. KeptIs(d)
  BY <1>2, <1>3, <1>4 DEF KeptIs, c
<1>6. ASSUME r # None PROVE ReaderIs(r, archive.file, d, archive.plain)
  <2> DEFINE kept == KeptOf(c, r.a, r.stamp)
             now == KeptOf(d, r.a, r.stamp)
  <2>1. InItsStep(r, kept, archive.plain[r.a])
    BY <1>2, <1>6 DEF ReaderIs
  <2>2. kept # {} => now # {}
    BY <1>3 DEF KeptOf
  <2>3. \A x \in now : \E y \in kept :
            x.got = y.got /\ x.cuts = y.cuts /\ x.verified = y.verified
    BY <1>3 DEF KeptOf, c
  <2> HIDE DEF kept, now
  <2>4. InItsStep(r, now, archive.plain[r.a])
    BY <2>1, <2>2, <2>3, KeptSame
  <2> QED BY <1>2, <1>6, <2>4 DEF ReaderIs, now
<1> HIDE DEF d, r
<1> QED BY <1>1, <1>5, <1>6 DEF ArchiveIs, r

\* Nothing is kept, and nobody reads.
LEMMA ArchivesStart ==
    ASSUME Chunks!Init
    PROVE  ArchiveIs(archive)
<1> DEFINE f == [a \in Archives |-> [blocks |-> Chunks!Right, stamp |-> 0]]
<1>1. PICK plain \in [Archives -> BOOLEAN] :
        archive = [file |-> f, plain |-> plain, rots |-> 0, cache |-> {}, r |-> None]
  BY DEF Chunks!Init
<1>2. FilesAre(f)
  <2> DEFINE e == [blocks |-> Chunks!Right, stamp |-> 0]
  <2>1. e \in [blocks : [1..Blocks -> Chunks!Content], stamp : Nat]
    BY DEF Chunks!Right, Chunks!Content
  <2> HIDE DEF e
  <2>2. [a \in Archives |-> e] \in [Archives -> [blocks : [1..Blocks -> Chunks!Content],
          stamp : Nat]]
    BY <2>1
  <2> QED BY <2>2 DEF FilesAre, e
<1>3. KeptIs({})
  BY DEF KeptIs
<1> HIDE DEF f
<1> QED BY <1>1, <1>2, <1>3 DEF ArchiveIs

\* Every step of the archives keeps the invariant.
LEMMA ArchivesStep ==
    ASSUME ArchiveIs(archive), Chunks!ArchivesAssumption, Chunks!Next
    PROVE  ArchiveIs(archive')
<1>1. CASE Chunks!Files
  <2>1. CASE \E a \in Archives : Chunks!RestoresFile(a)
    BY <2>1, RestoreKeeps
  <2>2. CASE \E a \in Archives : \E i \in 1..Blocks : Chunks!RotsAway(a, i)
    BY <2>2, RotsAwayKeeps
  <2>3. CASE \E s \in archive.cache : \E row \in DOMAIN s.cuts \cup {Chunks!Root} :
                Chunks!RowRots(s, row)
    BY <2>3, RowRotsKeeps
  <2>4. CASE Chunks!Trim
    <3>1. PICK d \in SUBSET archive.cache :
            archive.r = None /\ archive' = [archive EXCEPT !.cache = d]
      BY <2>4 DEF Chunks!Trim
    <3>2. /\ DOMAIN archive' = DOMAIN archive /\ archive'.r = None /\ archive'.cache = d
          /\ archive'.file = archive.file /\ archive'.plain = archive.plain
      BY <3>1 DEF ArchiveIs
    <3>3. KeptIs(d)
      BY KeptLess DEF ArchiveIs
    <3> QED BY <3>2, <3>3, ArchiveWith
  <2> QED BY <1>1, <2>1, <2>2, <2>3, <2>4 DEF Chunks!Files
<1>2. CASE Chunks!Reader
  <2>1. CASE \E a \in Archives, after \in 0..(Entries - 1) : Chunks!Begin(a, after)
    BY <2>1, BeginKeeps
  <2>2. CASE Chunks!Close
    <3>1. /\ DOMAIN archive' = DOMAIN archive /\ archive'.r = None
          /\ archive'.cache = archive.cache
          /\ archive'.file = archive.file /\ archive'.plain = archive.plain
      BY <2>2 DEF Chunks!Close, ArchiveIs
    <3>2. KeptIs(archive.cache)
      BY DEF ArchiveIs
    <3> QED BY <3>1, <3>2, ArchiveWith
  <2> QED BY <1>2, <2>1, <2>2, LoadKeeps, CheckKeeps, ReadKeeps, SaveKeeps, YieldKeeps,
             StreamKeeps DEF Chunks!Reader
<1> QED BY <1>1, <1>2 DEF Chunks!Next

\* The invariant says that what is read is exact.
LEMMA ReadsAreExact ==
    ASSUME ArchiveIs(archive), Chunks!ArchivesAssumption
    PROVE  Chunks!ReadIsExact /\ Chunks!DamageIsFound
<1> SUFFICES ASSUME archive.r # None
             PROVE  Chunks!ReadIsExact /\ Chunks!DamageIsFound
  BY DEF Chunks!ReadIsExact, Chunks!DamageIsFound, Chunks!At
<1> DEFINE r == archive.r
           kept == KeptOf(archive.cache, r.a, r.stamp)
           after == r.after
           all == Chunks!Parsed(Chunks!Right, 0, Blocks, after)
<1>1. KeptIs(archive.cache) /\ ReaderShape(r) /\ InItsStep(r, kept, archive.plain[r.a])
  BY ReaderFacts
<1>2. after \in Nat /\ Blocks \in Nat
  BY <1>1 DEF ReaderShape, Chunks!ArchivesAssumption
<1>3. r.step = "done" => r.out = all /\ r.intact
  BY <1>1 DEF InItsStep
<1>4. r.cached => r.step \in {"yield", "done"}
  BY <1>1 DEF InItsStep, Unread
<1>5. ASSUME NEW b \in Nat, b <= Blocks, r.out = Chunks!Parsed(Chunks!Right, 0, b, after)
      PROVE  Chunks!IsPrefix(r.out, all)
  <2> HIDE DEF after
  <2>1. Join(Chunks!Right, b, Blocks, after)
    BY <1>2, <1>5, PagesJoin
  <2>2. Chunks!IsPrefix(Chunks!Parsed(Chunks!Right, 0, b, after), all)
    BY <2>1, Zenon DEF Join
  <2> HIDE DEF all
  <2> QED BY <1>5, <2>2
<1>6. CASE r.step = "yield"
  <2>1. PICK s \in kept : TRUE
    BY <1>1, <1>6 DEF InItsStep
  <2>2. /\ s.verified /\ r.next <= Len(s.cuts) + 1 /\ r.next \in Nat \ {0}
        /\ r.out = Chunks!Parsed(Chunks!Right, 0, Edge(s.cuts, r.next - 1), after)
    BY <1>1, <1>6, <2>1 DEF InItsStep
  <2>3. SnapshotIs(s)
    BY <1>1, <2>1 DEF KeptIs, KeptOf
  <2>4. s.cuts \in Seq(Nat) /\ \A i \in 1..Len(s.cuts) : s.cuts[i] <= Blocks
    <3>1. s.got = Chunks!Right /\ CutsAre(s.cuts, Len(s.got)) /\ Len(Chunks!Right) = Blocks
      BY <1>2, <2>2, <2>3 DEF SnapshotIs, Chunks!Right
    <3> QED BY <3>1 DEF CutsAre
  <2> DEFINE b == Edge(s.cuts, r.next - 1)
  <2>5. b \in Nat /\ b <= Blocks
    <3> DEFINE k == r.next - 1
    <3>1. k = 0 \/ k \in 1..Len(s.cuts)
      BY <2>2, <2>4
    <3> HIDE DEF k
    <3>2. Edge(s.cuts, k) \in Nat /\ Edge(s.cuts, k) <= Blocks
      BY <1>2, <2>4, <3>1 DEF Edge
    <3> QED BY <3>2 DEF k
  <2> HIDE DEF b
  <2>6. r.out = Chunks!Parsed(Chunks!Right, 0, b, after)
    BY <2>2 DEF b
  <2>7. Chunks!IsPrefix(r.out, all)
    BY <1>5, <2>5, <2>6
  <2> HIDE DEF all
  <2> QED BY <1>6, <2>7 DEF Chunks!ReadIsExact, Chunks!DamageIsFound, Chunks!At, all
<1>7. CASE r.step = "done"
  <2>1. Chunks!IsPrefix(r.out, all)
    BY <1>2, <1>3, <1>5, <1>7
  <2> HIDE DEF all
  <2> QED BY <1>3, <1>7, <2>1 DEF Chunks!ReadIsExact, Chunks!DamageIsFound, Chunks!At, all
<1>8. CASE r.step \notin {"yield", "done"}
  BY <1>4, <1>8 DEF Chunks!ReadIsExact, Chunks!DamageIsFound, Chunks!At
<1> QED BY <1>6, <1>7, <1>8

-----------------------------------------------------------------------------

\* What a reader of an archive is given is what was stored, in order and each
\* entry once, and it does not come to the end of a damaged file
\* (session/ArchiveChunkStore.ts, session/ArchiveStream.ts): for any number of
\* archives, blocks and entries, and however often blocks and rows rot.
THEOREM ArchivesTheorem == Spec => []ArchivesAreExact
<1> DEFINE I == part = "archives" => ArchiveIs(archive)
<1>0. Chunks!ArchivesAssumption
  BY StorageAssumption DEF StorageAssumption
<1>1. Init => I
  BY ArchivesStart DEF Init
<1>2. I /\ [Next]_vars => I'
  <2> SUFFICES ASSUME I, [Next]_vars, part' = "archives" PROVE ArchiveIs(archive')
    OBVIOUS
  <2>1. CASE Next
    <3>1. Chunks!Next /\ ArchiveIs(archive)
      BY <2>1 DEF Next
    <3> QED BY <1>0, <3>1, ArchivesStep
  <2>2. CASE UNCHANGED vars
    BY <2>2 DEF vars
  <2> QED BY <2>1, <2>2
<1>3. I => ArchivesAreExact
  BY <1>0, ReadsAreExact DEF ArchivesAreExact
<1> QED BY <1>1, <1>2, <1>3, PTL DEF Spec

=============================================================================

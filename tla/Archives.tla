------------------------------- MODULE Archives -------------------------------
(***************************************************************************)
(* Reading an archive of the history for a page of the transcript          *)
(* (session/ArchiveChunkStore.ts, session/ArchiveStream.ts): the file is   *)
(* unpacked block by block, and how far it has come is kept in a cache of  *)
(* limited size, so that the next reader goes on where this one was killed.*)
(*                                                                         *)
(* An archive is Blocks blocks on disk and holds Entries entries, which    *)
(* straddle them.  A block may rot (its content is another one) and an     *)
(* archive may be restored (its identity is another one); rows of the      *)
(* cache may rot too.  The parser is where it is in the text: what it has  *)
(* fed to the digest are the blocks so far.  There is one reader at a      *)
(* time, behind the lock of the database.                                  *)
(***************************************************************************)
EXTENDS Naturals, Sequences, SequencesExt

CONSTANTS
    Archives,
    Blocks, Entries,
    Rots,       \* blocks and rows that rot (bound)
    Stamps,     \* identities of a file (bound)
    None

\* What the constants are (assumed where the module is instantiated).
ArchivesAssumption == {Blocks, Entries} \subseteq Nat \ {0} /\ {Rots, Stamps} \subseteq Nat

VARIABLE v

vars == v

Content == {"right", "wrong"}
Right == [i \in 1..Blocks |-> "right"]

\* Where an entry starts and ends in the text.
First(e) == ((e - 1) * Blocks) \div Entries + 1
Final(e) == (e * Blocks + Entries - 1) \div Entries

\* A snapshot: the inputs so far, where chunks were cut, and whether the digest was checked.
\* The row of one chunk may have rotted, or (Root) another row.
Root == Blocks + 1
Snapshot ==
    [a : Archives, stamp : 0..Stamps, got : Seq(Content), cuts : Seq(1..Blocks),
     verified : BOOLEAN, rotten : 0..Root]

TypeOK ==
    /\ v.file \in [Archives -> [blocks : [1..Blocks -> Content], stamp : 0..Stamps]]
    /\ v.plain \in [Archives -> BOOLEAN] /\ v.rots \in 0..Rots
    /\ v.cache \subseteq Snapshot

\* How many entries end in the first n blocks.
Ended(n) == (n * Entries) \div Blocks

\* An entry is right if all it lies in is.
Judged(got, e) ==
    <<e, IF \E i \in First(e)..Final(e) : got[i] = "wrong" THEN "wrong" ELSE "right">>

\* The entries after a given one that end in a range of blocks.
Parsed(got, from, to, after) ==
    LET n == IF after > Ended(from) THEN after ELSE Ended(from)
    IN [k \in 1..(Ended(to) - n) |-> Judged(got, n + k)]

-----------------------------------------------------------------------------
(* What happens to the files *)

RotsAway(a, i) ==
    /\ v.rots < Rots /\ v.file[a].blocks[i] = "right"
    /\ v' = [v EXCEPT !.file[a].blocks[i] = "wrong", !.rots = @ + 1]

RestoresFile(a) ==
    /\ v.file[a].stamp < Stamps
    /\ v' = [v EXCEPT !.file[a] = [blocks |-> Right, stamp |-> @.stamp + 1]]

RowRots(s, row) ==
    /\ v.rots < Rots /\ s.rotten = 0
    /\ v' = [v EXCEPT !.cache = (@ \ {s}) \cup {[s EXCEPT !.rotten = row]}, !.rots = @ + 1]

\* Over its quota the cache loses its oldest sources, or all of them.
Trim == v.r = None /\ \E kept \in SUBSET v.cache : kept # v.cache /\ v' = [v EXCEPT !.cache = kept]

-----------------------------------------------------------------------------
(* A reader *)

At(step) == v.r # None /\ v.r.step = step
SnapshotsOf(a) == {s \in v.cache : s.a = a /\ s.stamp = v.r.stamp}
WithoutThis == v.cache \ SnapshotsOf(v.r.a)

\* An open file stays the one it was when it was opened: a restore replaces the name.
Block(i) == IF v.file[v.r.a].stamp = v.r.stamp THEN v.file[v.r.a].blocks[i] ELSE v.r.old[i]

\* Without room for a cache the file is streamed.
Begin(a, after) ==
    /\ v.r = None
    /\ \E step \in {"load", "stream"} :
        v' = [v EXCEPT !.r = [a |-> a, stamp |-> v.file[a].stamp, old |-> v.file[a].blocks,
                    after |-> after, step |-> step, got |-> <<>>, cuts |-> <<>>, checked |-> 0,
                    out |-> <<>>, cached |-> FALSE, next |-> 1,
                    intact |-> v.file[a].blocks = Right]]

Afresh(r) == [r EXCEPT !.step = "read", !.got = <<>>, !.cuts = <<>>]

\* A snapshot whose digests do not match is thrown away.
Load ==
    /\ At("load")
    /\ LET found == {s \in SnapshotsOf(v.r.a) : s.rotten # Root}
       IN IF found = {} THEN v' = [v EXCEPT !.r = Afresh(@), !.cache = WithoutThis]
          ELSE \E s \in found :
                v' = [v EXCEPT !.r = [@ EXCEPT !.step = "check", !.got = s.got, !.cuts = s.cuts]]

\* The inputs of the snapshot, one after the other, against the file as it is now.
Check ==
    /\ At("check")
    /\ LET i == v.r.checked + 1
           verified == \E s \in SnapshotsOf(v.r.a) : s.verified
       IN IF i > Len(v.r.got)
          THEN v' = [v EXCEPT !.r.checked = 0, !.r.step = IF verified THEN "yield" ELSE "read"]
          ELSE IF Block(i) = v.r.got[i] THEN v' = [v EXCEPT !.r.checked = i]
          ELSE v' = [v EXCEPT !.r = [Afresh(@) EXCEPT !.checked = 0], !.cache = WithoutThis]

\* An error drops what is kept of the archive; the reader throws away what it was given.
Fails == v' = [v EXCEPT !.r = None, !.cache = WithoutThis]

ToStream(r) == [r EXCEPT !.step = "stream", !.got = <<>>, !.cuts = <<>>]

\* The next block.  A wrong one may show at once; another form of text is for the old decoder.
Read ==
    /\ At("read") /\ Len(v.r.got) < Blocks
    /\ LET b == Block(Len(v.r.got) + 1)
       IN \/ v.plain[v.r.a] /\ v' = [v EXCEPT !.r.got = Append(@, b), !.r.step = "save"]
          \/ b = "wrong" /\ Fails
          \/ ~v.plain[v.r.a] /\ v' = [v EXCEPT !.r = ToStream(@), !.cache = WithoutThis]

\* Mutant of Sound: the digest of the whole is not compared.
SoundOnceRead(got) == Len(got) = Blocks

\* The digest of the archive, once all of it is read.
Sound(got) == got = Right

Cut(r) ==
    LET last == IF r.cuts = <<>> THEN 0 ELSE Last(r.cuts)
    IN IF Ended(Len(r.got)) = Ended(last) THEN r.cuts ELSE Append(r.cuts, Len(r.got))

\* Every half megabyte and at the end the rows and the snapshot are saved together, at the
\* cost of other archives; where that is not enough room, the file is streamed.
Save ==
    /\ At("save")
    /\ LET done == Len(v.r.got) = Blocks
           s == [a |-> v.r.a, stamp |-> v.r.stamp, got |-> v.r.got, cuts |-> Cut(v.r),
                 verified |-> done, rotten |-> 0]
       IN IF done /\ ~Sound(v.r.got) THEN Fails
          ELSE \/ ~done /\ v' = [v EXCEPT !.r.step = "read"]
               \/ \E others \in SUBSET WithoutThis :
                    v' = [v EXCEPT !.r.step = IF done THEN "yield" ELSE "read",
                            !.r.cuts = s.cuts, !.cache = others \cup {s}]
               \/ v' = [v EXCEPT !.r = ToStream(@)]

\* The chunks after the wanted entry, each against its own digest.
Yield ==
    /\ At("yield")
    /\ LET k == v.r.next
           s == CHOOSE s \in SnapshotsOf(v.r.a) : TRUE
           from == IF k = 1 THEN 0 ELSE s.cuts[k - 1]
       IN IF k > Len(s.cuts) THEN v' = [v EXCEPT !.r.step = "done", !.r.cached = TRUE]
          ELSE LET es == Parsed(s.got, from, s.cuts[k], v.r.after)
               IN IF s.rotten = k /\ es # <<>> THEN Fails
                  ELSE v' = [v EXCEPT !.r.next = k + 1, !.r.out = @ \o es, !.r.cached = TRUE]

\* Entries are handed on as they are read, and the digest comes last; text of another form
\* is decoded as a whole.
Stream ==
    /\ At("stream")
    /\ LET n == Len(v.r.got)
           got == Append(v.r.got, Block(n + 1))
       IN IF n < Blocks
          THEN \/ Last(got) = "wrong" /\ v' = [v EXCEPT !.r = None]
               \/ v' = [v EXCEPT !.r.got = got,
                           !.r.out = IF v.plain[v.r.a]
                                     THEN @ \o Parsed(got, n, n + 1, v.r.after) ELSE @]
          ELSE IF ~Sound(v.r.got) THEN v' = [v EXCEPT !.r = None]
          ELSE v' = [v EXCEPT !.r.step = "done",
                        !.r.out = IF v.plain[v.r.a] THEN @
                                  ELSE Parsed(v.r.got, 0, Blocks, v.r.after)]

\* The page is committed, or its process is killed.
Close == v.r # None /\ v' = [v EXCEPT !.r = None]

-----------------------------------------------------------------------------

Init ==
    \E plain \in [Archives -> BOOLEAN] :
        v = [file |-> [a \in Archives |-> [blocks |-> Right, stamp |-> 0]], plain |-> plain,
             rots |-> 0, cache |-> {}, r |-> None]

Files ==
    \/ \E a \in Archives : RestoresFile(a) \/ \E i \in 1..Blocks : RotsAway(a, i)
    \/ \E s \in v.cache : \E row \in DOMAIN s.cuts \cup {Root} : RowRots(s, row)
    \/ Trim
Reader ==
    \/ \E a \in Archives, after \in 0..(Entries - 1) : Begin(a, after)
    \/ Load \/ Check \/ Read \/ Save \/ Yield \/ Stream \/ Close

Next == Files \/ Reader

Spec == Init /\ [][Next]_vars

-----------------------------------------------------------------------------

\* A reader that comes to the end has been given the entries it asked for, each once, in
\* order and right; and of a cache it is never given anything else, end or not
\* (session/ArchiveChunkStore.ts entries).
ReadIsExact ==
    v.r # None => LET all == Parsed(Right, 0, Blocks, v.r.after)
                  IN /\ At("done") => v.r.out = all
                     /\ v.r.cached => IsPrefix(v.r.out, all)

\* A file that is damaged when a reader opens it is never read to the end: the cache does not
\* hide it (session/ArchiveChunkStore.ts entries, session/ArchiveStream.ts).
DamageIsFound == At("done") => v.r.intact

=============================================================================

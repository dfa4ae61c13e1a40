------------------------- MODULE WriteServicesProofs -------------------------
(***************************************************************************)
(* Proofs about the response cache and the write services above it, for    *)
(* any number of calls, operation ids, reviews, keys and readers, and any  *)
(* scenario.                                                               *)
(*                                                                         *)
(* Part one is about the cache alone (CachedReads).  Part two is about the *)
(* operation ledger.  Part three shows that every step of the services is  *)
(* a step of the cache or leaves it alone, so that what part one shows of  *)
(* the cache holds here; with what part two shows of the calls, a caller   *)
(* that knows its write has succeeded reads it.                            *)
(***************************************************************************)
EXTENDS WriteServices, TLAPS

-----------------------------------------------------------------------------
(***************************************************************************)
(* Part one.  The cache never answers with content from before an          *)
(* invalidation.                                                           *)
(*                                                                         *)
(* CacheIsCurrent alone is not inductive: it says nothing of the reads     *)
(* that will store, nor of the tasks that will take a mark back.  Two      *)
(* facts are added.  A result that is about to be stored is either current *)
(* or covered by a mark newer than its read, which pruning keeps.  An old  *)
(* entry is covered by a mark that no deletion task is about to take back. *)
(***************************************************************************)
\* Every number taken from the generation counter is at most its value.
Bounded ==
  /\ \A p \in Prefix : dirty[p] <= generation /\ marked[p] <= generation
  /\ \A r \in Reader : reader[r].gen <= generation
  /\ \A s \in Scope : drain[s].gen <= generation
  /\ \A j \in Job : job[j].gen <= generation

\* A drain works on the scope it is kept under.
DrainScoped == \A s \in Scope : drain[s].at # "none" => drain[s].scope = s

PromisedIsThere == \A k \in Key : promised[k] \subseteq forge[k]

\* What a read has got is current, or a mark newer than the read forbids to
\* store it.
GotIsCurrent ==
  \A r \in Reader : reader[r].at = "served" =>
    \/ promised[reader[r].key] \subseteq reader[r].got
    \/ \E p \in Prefix : Under(reader[r].key, p) /\ marked[p] > reader[r].gen

\* A task that is about to take the mark of p back.
TakesBack(task, p) ==
  task.at = "clear" /\ task.ok /\ p \in task.scope /\ task.gen = dirty[p]

\* A mark of p that stays until p has been deleted again.
Lasting(p) == /\ dirty[p] > 0
              /\ \A s \in Scope : ~TakesBack(drain[s], p)
              /\ \A j \in Job : ~TakesBack(job[j], p)

\* An old entry is below a mark that stays.
OldIsMarked ==
  \A k \in Key : \/ cache[k] = Nothing
                 \/ promised[k] \subseteq cache[k]
                 \/ \E p \in Prefix : Under(k, p) /\ Lasting(p)

ReadsInv == /\ ReadsTypeOK /\ Bounded /\ DrainScoped
       /\ PromisedIsThere /\ GotIsCurrent /\ OldIsMarked

-----------------------------------------------------------------------------
(***************************************************************************)
(* The operators the model is built from.                                  *)
(***************************************************************************)

\* The newest mark of a scope is one of its marks.
LEMMA NewestMark ==
  ASSUME NEW s \in Scope, NEW d \in [Prefix -> Nat]
  PROVE  \E g \in {d[p] : p \in s} : \A p \in s : d[p] <= g
<1>1. CASE s \in {{List}, {Repo}}
  <2>1. PICK p \in Prefix : s = {p}
    BY <1>1 DEF Prefix, Key
  <2>2. d[p] \in {d[q] : q \in s} /\ d[p] \in Nat
    BY <2>1
  <2> QED BY <2>1, <2>2
<1>2. CASE \E n \in Review : s = ReviewScope(n)
  <2>1. PICK n \in Review : s = {List, n}
    BY <1>2 DEF ReviewScope
  <2>2. d[List] \in Nat /\ d[n] \in Nat
    BY <2>1 DEF Prefix, Key
  <2>3. d[List] <= d[n] \/ d[n] <= d[List]
    BY <2>2
  <2> QED BY <2>1, <2>2, <2>3
<1> QED BY <1>1, <1>2 DEF Scope

LEMMA ScopeIsPrefixes == \A s \in Scope : s \subseteq Prefix
BY DEF Scope, ReviewScope, Prefix, Key

\* A round of a drain is a task of the right type, for the newest mark.
LEMMA NextRoundOK ==
  ASSUME NEW s \in Scope, NEW d \in [Prefix -> Nat], NEW n \in Nat,
         \A p \in Prefix : d[p] <= n
  PROVE  /\ NextRound(s, d) \in TaskType
         /\ NextRound(s, d).gen <= n
         /\ NextRound(s, d).at \in {"none", "delete"}
         /\ NextRound(s, d).at # "none" => NextRound(s, d).scope = s
<1> DEFINE newest == CHOOSE g \in {d[p] : p \in s} : \A p \in s : d[p] <= g
<1>1. newest \in {d[p] : p \in s}
  BY NewestMark
<1>2. newest \in Nat /\ newest <= n
  BY <1>1, ScopeIsPrefixes
<1> HIDE DEF newest
<1>3. Deleting(s, newest) \in TaskType
  BY <1>2 DEF Deleting, TaskType
<1>4. NoTask \in TaskType
  BY DEF NoTask, TaskType
<1>5. NextRound(s, d) = NoTask \/ NextRound(s, d) = Deleting(s, newest)
  BY DEF NextRound, newest
<1>6. CASE NextRound(s, d) = NoTask
  BY <1>4, <1>6 DEF NoTask
<1>7. CASE NextRound(s, d) = Deleting(s, newest)
  BY <1>2, <1>3, <1>7 DEF Deleting
<1> QED BY <1>5, <1>6, <1>7

-----------------------------------------------------------------------------
(***************************************************************************)
(* Reads.  They change one reader, and the cache of its key.               *)
(***************************************************************************)
ReadType == [at : {"idle", "lookup", "fetch", "served", "storing"},
             key : Key, gen : Nat, got : Content]

\* A change of one reader, to one that has nothing to store.
LEMMA ReaderMoves ==
  ASSUME ReadsInv, NEW r \in Reader, NEW read \in ReadType, SetRead(r, read),
         read.gen <= generation, read.at # "served",
         UNCHANGED <<forge, promised, cache, generation, dirty, marked, drain, job>>
  PROVE  ReadsInv'
<1>1. reader' \in [Reader -> ReadType] /\ \A q \in Reader : reader'[q] \in {reader[q], read}
  BY DEF SetRead, ReadsInv, ReadsTypeOK, ReadType
<1>2. ReadsTypeOK'
  BY <1>1 DEF ReadsInv, ReadsTypeOK, ReadType
<1>3. Bounded'
  BY <1>1 DEF ReadsInv, Bounded
<1>4. DrainScoped' /\ PromisedIsThere'
  BY DEF ReadsInv, DrainScoped, PromisedIsThere
<1>5. GotIsCurrent'
  BY <1>1 DEF ReadsInv, GotIsCurrent
<1>6. OldIsMarked'
  BY DEF ReadsInv, OldIsMarked, Lasting, TakesBack
<1> QED BY <1>2, <1>3, <1>4, <1>5, <1>6 DEF ReadsInv

LEMMA NoReadOK == NoRead \in ReadType /\ NoRead.gen = 0
BY DEF NoRead, ReadType, Key, Content

LEMMA MissStep == ASSUME ReadsInv, NEW r \in Reader, NEW k \in Key, Miss(r, k) PROVE ReadsInv'
<1> DEFINE read == [NoRead EXCEPT !.at = "lookup", !.key = k]
<1>1. read \in ReadType /\ read.gen = 0 /\ read.at = "lookup"
  BY NoReadOK DEF ReadType
<1>2. read.gen <= generation
  BY <1>1 DEF ReadsInv, ReadsTypeOK
<1> HIDE DEF read
<1> QED BY <1>1, <1>2, ReaderMoves DEF Miss, read

LEMMA BeginReadStep == ASSUME ReadsInv, NEW r \in Reader, BeginRead(r) PROVE ReadsInv'
<1>1. generation \in Nat /\ reader[r] \in ReadType
  BY DEF ReadsInv, ReadsTypeOK, ReadType
<1>2. CASE SetRead(r, [reader[r] EXCEPT !.at = "fetch", !.gen = generation])
  <2> DEFINE read == [reader[r] EXCEPT !.at = "fetch", !.gen = generation]
  <2>1. read \in ReadType /\ read.gen = generation /\ read.at = "fetch"
    BY <1>1 DEF ReadType
  <2>2. read.gen <= generation
    BY <1>1, <2>1
  <2> QED BY <1>2, <2>1, <2>2, ReaderMoves DEF BeginRead
<1>3. CASE SetRead(r, [NoRead EXCEPT !.at = "fetch", !.gen = generation])
  <2> DEFINE read == [NoRead EXCEPT !.at = "fetch", !.gen = generation]
  <2>1. read \in ReadType /\ read.gen = generation /\ read.at = "fetch"
    BY <1>1, NoReadOK DEF ReadType
  <2>2. read.gen <= generation
    BY <1>1, <2>1
  <2> QED BY <1>3, <2>1, <2>2, ReaderMoves DEF BeginRead
<1> QED BY <1>2, <1>3 DEF BeginRead

\* What the forge serves is at least what it had at the last invalidation.
LEMMA ForgeServesStep == ASSUME ReadsInv, NEW r \in Reader, ForgeServes(r) PROVE ReadsInv'
<1> DEFINE read == [reader[r] EXCEPT !.at = "served", !.got = forge[reader[r].key]]
<1>1. /\ read \in ReadType /\ read.gen = reader[r].gen
      /\ promised[read.key] \subseteq read.got
  BY DEF ReadsInv, ReadsTypeOK, ReadType, PromisedIsThere
<1>2. reader' \in [Reader -> ReadType] /\ \A q \in Reader : reader'[q] \in {reader[q], read}
  BY <1>1 DEF ForgeServes, SetRead, ReadsInv, ReadsTypeOK, ReadType
<1>3. UNCHANGED <<forge, promised, cache, generation, dirty, marked, drain, job>>
  BY DEF ForgeServes
<1> HIDE DEF read
<1>4. ReadsTypeOK'
  BY <1>2, <1>3 DEF ReadsInv, ReadsTypeOK, ReadType
<1>5. Bounded'
  BY <1>1, <1>2, <1>3 DEF ReadsInv, Bounded
<1>6. DrainScoped' /\ PromisedIsThere'
  BY <1>3 DEF ReadsInv, DrainScoped, PromisedIsThere
<1>7. GotIsCurrent'
  BY <1>1, <1>2, <1>3 DEF ReadsInv, GotIsCurrent
<1>8. OldIsMarked'
  BY <1>3 DEF ReadsInv, OldIsMarked, Lasting, TakesBack
<1> QED BY <1>4, <1>5, <1>6, <1>7, <1>8 DEF ReadsInv

\* Only what no mark forbids is stored.
LEMMA StoreStep == ASSUME ReadsInv, NEW r \in Reader, Store(r) PROVE ReadsInv'
<1> DEFINE read == [reader[r] EXCEPT !.at = "storing"]
<1>1. reader[r] \in ReadType /\ read \in ReadType /\ read.gen = reader[r].gen /\ read.at = "storing"
  BY DEF ReadsInv, ReadsTypeOK, ReadType
<1>2. reader' \in [Reader -> ReadType] /\ \A q \in Reader : reader'[q] \in {reader[q], read}
  BY <1>1 DEF Store, SetRead, ReadsInv, ReadsTypeOK, ReadType
<1>3. UNCHANGED <<forge, promised, generation, dirty, marked, drain, job>>
  BY DEF Store
<1>4. promised[reader[r].key] \subseteq reader[r].got
  BY DEF Store, MayStore, ReadsInv, GotIsCurrent
<1> HIDE DEF read
<1>5. \/ cache' = [cache EXCEPT ![reader[r].key] = reader[r].got]
      \/ cache' = cache
  BY DEF Store
<1>6. ReadsTypeOK'
  <2>1. cache' \in [Key -> Content \cup {Nothing}]
    BY <1>1, <1>5 DEF ReadsInv, ReadsTypeOK, ReadType
  <2> QED BY <1>2, <1>3, <2>1 DEF ReadsInv, ReadsTypeOK, ReadType
<1>7. Bounded'
  BY <1>1, <1>2, <1>3 DEF ReadsInv, Bounded
<1>8. DrainScoped' /\ PromisedIsThere'
  BY <1>3 DEF ReadsInv, DrainScoped, PromisedIsThere
<1>9. GotIsCurrent'
  BY <1>1, <1>2, <1>3 DEF ReadsInv, GotIsCurrent
<1>10. OldIsMarked'
  <2>1. \A k \in Key : cache'[k] = cache[k] \/ promised[k] \subseteq cache'[k]
    BY <1>1, <1>4, <1>5 DEF ReadsInv, ReadsTypeOK, ReadType
  <2> QED BY <1>3, <2>1 DEF ReadsInv, OldIsMarked, Lasting, TakesBack
<1> QED BY <1>6, <1>7, <1>8, <1>9, <1>10 DEF ReadsInv

\* Pruning keeps the marks that are newer than a read in flight.
LEMMA PrunedKeeps ==
  ASSUME NEW m \in [Prefix -> Nat], NEW rs \in [Reader -> ReadType],
         NEW n \in Nat, \A p \in Prefix : m[p] <= n
  PROVE  /\ Pruned(m, rs) \in [Prefix -> Nat]
         /\ \A p \in Prefix : Pruned(m, rs)[p] <= n
         /\ \A r \in Reader, p \in Prefix :
              rs[r].at = "served" /\ m[p] > rs[r].gen => Pruned(m, rs)[p] = m[p]
BY DEF Pruned, InFlight, ReadType

LEMMA EndReadStep == ASSUME ReadsInv, NEW r \in Reader, EndRead(r) PROVE ReadsInv'
<1>1. /\ reader' \in [Reader -> ReadType]
      /\ \A q \in Reader : reader'[q] = reader[q] \/ reader'[q] = NoRead
  BY NoReadOK DEF EndRead, SetRead, ReadsInv, ReadsTypeOK, ReadType
<1>2. UNCHANGED <<forge, promised, cache, generation, dirty, drain, job>>
  BY DEF EndRead
<1>3. /\ marked' \in [Prefix -> Nat] /\ \A p \in Prefix : marked'[p] <= generation
      /\ \A q \in Reader, p \in Prefix :
           reader'[q].at = "served" /\ marked[p] > reader'[q].gen => marked'[p] = marked[p]
  BY <1>1, PrunedKeeps DEF EndRead, ReadsInv, ReadsTypeOK, Bounded
<1>4. ReadsTypeOK'
  BY <1>1, <1>2, <1>3 DEF ReadsInv, ReadsTypeOK, ReadType
<1>5. Bounded'
  <2>1. \A q \in Reader : reader'[q].gen <= generation
    BY <1>1 DEF ReadsInv, Bounded, NoRead, ReadsTypeOK
  <2> QED BY <1>2, <1>3, <2>1 DEF ReadsInv, Bounded
<1>6. DrainScoped' /\ PromisedIsThere'
  BY <1>2 DEF ReadsInv, DrainScoped, PromisedIsThere
<1>7. GotIsCurrent'
  BY <1>1, <1>2, <1>3 DEF ReadsInv, GotIsCurrent, NoRead
<1>8. OldIsMarked'
  BY <1>2 DEF ReadsInv, OldIsMarked, Lasting, TakesBack
<1> QED BY <1>4, <1>5, <1>6, <1>7, <1>8 DEF ReadsInv

LEMMA DropStep == ASSUME ReadsInv, NEW k \in Key, Drop(k) PROVE ReadsInv'
<1>1. UNCHANGED <<forge, promised, generation, dirty, marked, reader, drain, job>>
  BY DEF Drop
<1>2. /\ cache' \in [Key -> Content \cup {Nothing}]
      /\ \A j \in Key : cache'[j] = cache[j] \/ cache'[j] = Nothing
  BY DEF Drop, ReadsInv, ReadsTypeOK
<1>3. ReadsTypeOK' /\ Bounded' /\ DrainScoped' /\ PromisedIsThere' /\ GotIsCurrent'
  BY <1>1, <1>2 DEF ReadsInv, ReadsTypeOK, Bounded, DrainScoped, PromisedIsThere, GotIsCurrent
<1>4. OldIsMarked'
  BY <1>1, <1>2 DEF ReadsInv, OldIsMarked, Lasting, TakesBack
<1> QED BY <1>3, <1>4 DEF ReadsInv

LEMMA ForgeChangesStep ==
  ASSUME ReadsInv, NEW w \in Write, NEW ks \in SUBSET Key, ForgeChanges(w, ks) PROVE ReadsInv'
<1>1. UNCHANGED <<promised, cache, generation, dirty, marked, reader, drain, job>>
  BY DEF ForgeChanges
<1>2. forge' \in [Key -> Content] /\ \A k \in Key : forge[k] \subseteq forge'[k]
  BY DEF ForgeChanges, ReadsInv, ReadsTypeOK, Content
<1>3. ReadsTypeOK' /\ Bounded' /\ DrainScoped' /\ PromisedIsThere' /\ GotIsCurrent'
  BY <1>1, <1>2 DEF ReadsInv, ReadsTypeOK, Bounded, DrainScoped, PromisedIsThere, GotIsCurrent
<1>4. OldIsMarked'
  BY <1>1 DEF ReadsInv, OldIsMarked, Lasting, TakesBack
<1> QED BY <1>3, <1>4 DEF ReadsInv

-----------------------------------------------------------------------------
(***************************************************************************)
(* Invalidations.                                                          *)
(***************************************************************************)
Marking == /\ forge' \in [Key -> Content] /\ promised' \in [Key -> Content]
           /\ generation' \in Nat /\ generation' = generation + 1
           /\ dirty' \in [Prefix -> Nat] /\ marked' \in [Prefix -> Nat]
           /\ \A p \in Prefix : dirty'[p] <= generation' /\ marked'[p] <= generation'
           /\ PromisedIsThere' /\ GotIsCurrent'
           /\ UNCHANGED <<forge, cache, reader>>

\* Marks of a new generation, whatever scope they are for.
LEMMA MarkStep == ASSUME ReadsInv, NEW s \in Scope, Mark(s) PROVE Marking
<1> DEFINE new == [p \in Prefix |-> IF p \in s THEN generation + 1 ELSE marked[p]]
<1>1. UNCHANGED <<forge, cache, reader>> /\ generation' = generation + 1
  BY DEF Mark
<1>2. /\ generation \in Nat /\ reader \in [Reader -> ReadType]
      /\ \A r \in Reader : reader[r].gen \in Nat /\ reader[r].gen <= generation
      /\ \A r \in Reader : reader[r].key \in Key
  BY DEF ReadsInv, ReadsTypeOK, ReadType, Bounded
<1>3. new \in [Prefix -> Nat] /\ \A p \in Prefix : new[p] <= generation + 1
  BY <1>2 DEF ReadsInv, ReadsTypeOK, Bounded
<1>4. marked' = Pruned(new, reader)
  BY DEF Mark
<1>5. \A p \in Prefix : new[p] = IF p \in s THEN generation + 1 ELSE marked[p]
  OBVIOUS
<1> HIDE DEF new
<1>6. /\ marked' \in [Prefix -> Nat] /\ \A p \in Prefix : marked'[p] <= generation'
      /\ \A r \in Reader, p \in Prefix :
           reader[r].at = "served" /\ new[p] > reader[r].gen => marked'[p] = new[p]
  BY <1>1, <1>2, <1>3, <1>4, PrunedKeeps
<1>7. dirty' \in [Prefix -> Nat] /\ \A p \in Prefix : dirty'[p] <= generation'
  BY <1>1, <1>2 DEF Mark, ReadsInv, ReadsTypeOK, Bounded
<1>8. /\ promised' \in [Key -> Content]
      /\ \A k \in Key : promised'[k] = IF Covers(s, k) THEN forge[k] ELSE promised[k]
  BY DEF Mark, ReadsInv, ReadsTypeOK
<1>9. PromisedIsThere'
  BY <1>1, <1>8 DEF ReadsInv, PromisedIsThere
<1>10. GotIsCurrent'
  <2> SUFFICES ASSUME NEW r \in Reader, reader[r].at = "served"
               PROVE  \/ promised'[reader[r].key] \subseteq reader[r].got
                      \/ \E p \in Prefix : Under(reader[r].key, p) /\ marked'[p] > reader[r].gen
    BY <1>1 DEF GotIsCurrent
  <2>1. CASE Covers(s, reader[r].key)
    <3>1. PICK p \in s : Under(reader[r].key, p)
      BY <2>1 DEF Covers
    <3>2. p \in Prefix /\ new[p] = generation + 1 /\ new[p] > reader[r].gen
      BY <1>2, <1>5, ScopeIsPrefixes
    <3> QED BY <1>6, <3>1, <3>2
  <2>2. CASE ~Covers(s, reader[r].key)
    <3>1. promised'[reader[r].key] = promised[reader[r].key]
      BY <1>2, <1>8, <2>2
    <3>2. \A p \in Prefix : Under(reader[r].key, p) => new[p] = marked[p]
      BY <1>5, <2>2 DEF Covers
    <3> QED BY <1>6, <3>1, <3>2 DEF ReadsInv, GotIsCurrent
  <2> QED BY <2>1, <2>2
<1> QED BY <1>1, <1>2, <1>6, <1>7, <1>8, <1>9, <1>10 DEF Marking, ReadsInv, ReadsTypeOK

\* Under new marks, old entries stay covered: a key below a new mark by that mark,
\* which no task there is can take back, any other key as before.
LEMMA MarkCovers ==
  ASSUME ReadsInv, NEW s \in Scope, Mark(s),
         \A t \in Scope : drain'[t] = drain[t] \/ drain'[t].at # "clear",
         \A j \in Job : job'[j] = job[j] \/ job'[j].at # "clear"
  PROVE  OldIsMarked'
<1>1. /\ generation \in Nat /\ cache' = cache
      /\ \A p \in Prefix : dirty'[p] = IF p \in s THEN generation + 1 ELSE dirty[p]
      /\ \A k \in Key : ~Covers(s, k) => promised'[k] = promised[k]
  BY DEF Mark, ReadsInv, ReadsTypeOK
<1>2. /\ \A t \in Scope : drain[t].gen \in Nat /\ drain[t].gen <= generation
      /\ \A j \in Job : job[j].gen \in Nat /\ job[j].gen <= generation
  BY DEF ReadsInv, ReadsTypeOK, TaskType, Bounded
<1>3. \A p \in s : p \in Prefix /\ Lasting(p)'
  BY <1>1, <1>2, ScopeIsPrefixes DEF Lasting, TakesBack
<1>4. \A p \in Prefix : p \notin s /\ Lasting(p) => Lasting(p)'
  BY <1>1 DEF Lasting, TakesBack
<1> SUFFICES ASSUME NEW k \in Key
             PROVE  \/ cache'[k] = Nothing
                    \/ promised'[k] \subseteq cache'[k]
                    \/ \E p \in Prefix : Under(k, p) /\ Lasting(p)'
  BY DEF OldIsMarked
<1>5. CASE Covers(s, k)
  BY <1>3, <1>5 DEF Covers
<1>6. CASE ~Covers(s, k)
  BY <1>1, <1>4, <1>6 DEF Covers, ReadsInv, OldIsMarked
<1> QED BY <1>5, <1>6

LEMMA InvalidateStep ==
  ASSUME ReadsInv, NEW j \in Job, NEW s \in Scope, Invalidate(j, s) PROVE ReadsInv'
<1>1. Marking
  BY MarkStep DEF Invalidate
<1>2. drain' = drain /\ generation \in Nat
  BY DEF Invalidate, ReadsInv, ReadsTypeOK
<1> DEFINE new == Deleting(s, generation + 1)
<1>3. new \in TaskType /\ new.gen = generation + 1 /\ new.at = "delete"
  BY <1>2 DEF Deleting, TaskType
<1>4. job' \in [Job -> TaskType] /\ \A i \in Job : job'[i] = job[i] \/ job'[i] = new
  BY <1>3 DEF Invalidate, ReadsInv, ReadsTypeOK
<1> HIDE DEF new
<1>5. ReadsTypeOK'
  BY <1>1, <1>2, <1>4 DEF Marking, ReadsInv, ReadsTypeOK
<1>6. Bounded'
  <2>1. \A r \in Reader : reader[r].gen \in Nat /\ reader[r].gen <= generation'
    BY <1>1, <1>2 DEF Marking, ReadsInv, ReadsTypeOK, Bounded
  <2>2. \A t \in Scope : drain[t].gen <= generation'
    BY <1>1, <1>2 DEF Marking, ReadsInv, ReadsTypeOK, TaskType, Bounded
  <2>3. \A i \in Job : job'[i].gen <= generation'
    BY <1>1, <1>2, <1>3, <1>4 DEF Marking, ReadsInv, ReadsTypeOK, TaskType, Bounded
  <2> QED BY <1>1, <1>2, <2>1, <2>2, <2>3 DEF Marking, Bounded
<1>7. DrainScoped' /\ PromisedIsThere' /\ GotIsCurrent'
  BY <1>1, <1>2 DEF Marking, ReadsInv, DrainScoped
<1>8. OldIsMarked'
  BY <1>2, <1>3, <1>4, MarkCovers DEF Invalidate
<1> QED BY <1>5, <1>6, <1>7, <1>8 DEF ReadsInv

LEMMA WroteStep == ASSUME ReadsInv, NEW s \in Scope, Wrote(s) PROVE ReadsInv'
<1>1. Marking
  BY MarkStep DEF Wrote
<1>2. job' = job /\ generation \in Nat
  BY DEF Wrote, ReadsInv, ReadsTypeOK
<1> DEFINE new == [NoTask EXCEPT !.at = "new", !.scope = s]
<1>3. NoTask \in TaskType /\ NoTask.gen = 0
  BY DEF NoTask, TaskType
<1>4. new \in TaskType /\ new.gen = 0 /\ new.at = "new" /\ new.scope = s
  BY <1>3 DEF TaskType
<1>5. drain' = drain \/ drain' = [drain EXCEPT ![s] = new]
  BY DEF Wrote
<1> HIDE DEF new
<1>6. /\ drain' \in [Scope -> TaskType]
      /\ \A t \in Scope : drain'[t] = drain[t] \/ (drain'[t] = new /\ t = s)
  BY <1>4, <1>5 DEF ReadsInv, ReadsTypeOK
<1>7. ReadsTypeOK'
  BY <1>1, <1>2, <1>6 DEF Marking, ReadsInv, ReadsTypeOK
<1>8. Bounded'
  <2>1. \A r \in Reader : reader[r].gen \in Nat /\ reader[r].gen <= generation'
    BY <1>1, <1>2 DEF Marking, ReadsInv, ReadsTypeOK, Bounded
  <2>2. \A j \in Job : job[j].gen <= generation'
    BY <1>1, <1>2 DEF Marking, ReadsInv, ReadsTypeOK, TaskType, Bounded
  <2>3. \A t \in Scope : drain'[t].gen <= generation'
    BY <1>1, <1>2, <1>4, <1>6 DEF Marking, ReadsInv, ReadsTypeOK, TaskType, Bounded
  <2> QED BY <1>1, <1>2, <2>1, <2>2, <2>3 DEF Marking, Bounded
<1>9. DrainScoped' /\ PromisedIsThere' /\ GotIsCurrent'
  BY <1>1, <1>4, <1>6 DEF Marking, ReadsInv, DrainScoped
<1>10. OldIsMarked'
  BY <1>2, <1>4, <1>6, MarkCovers DEF Wrote
<1> QED BY <1>7, <1>8, <1>9, <1>10 DEF ReadsInv

\* A DELETE removes every entry it covers, or its task will not take marks back.
\* task is the task after it, before the task that has its place.
LEMMA DeletesCover ==
  ASSUME ReadsInv, NEW s \in Scope, NEW failed \in SUBSET s, NEW task \in TaskType,
         Deleted(s, failed), task.scope = s, task.ok = (failed = {}),
         UNCHANGED <<promised, dirty>>,
         \A t \in Scope : drain'[t] \in {drain[t], task},
         \A j \in Job : job'[j] \in {job[j], task}
  PROVE  OldIsMarked'
<1>1. \A k \in Key : cache'[k] = Nothing \/ (cache'[k] = cache[k] /\ ~Covers(s \ failed, k))
  BY DEF Deleted
<1> SUFFICES ASSUME NEW k \in Key, cache'[k] # Nothing, ~(promised'[k] \subseteq cache'[k])
             PROVE  \E p \in Prefix : Under(k, p) /\ Lasting(p)'
  BY DEF OldIsMarked
<1>2. cache'[k] = cache[k] /\ ~Covers(s \ failed, k)
  BY <1>1
<1>3. PICK p \in Prefix : Under(k, p) /\ Lasting(p)
  BY <1>2 DEF ReadsInv, OldIsMarked
<1>4. ~(task.ok /\ p \in task.scope)
  BY <1>2, <1>3 DEF Covers
<1>5. Lasting(p)'
  BY <1>3, <1>4 DEF Lasting, TakesBack
<1> QED BY <1>3, <1>5

\* Taking back the marks of one generation leaves those that stay.
LEMMA ClearedKeeps ==
  ASSUME ReadsInv, NEW task \in TaskType, task.at = "clear",
         \/ \E s \in Scope : task = drain[s]
         \/ \E j \in Job : task = job[j],
         dirty' = Cleared(task), UNCHANGED <<promised, cache>>,
         \A t \in Scope : drain'[t] = drain[t] \/ drain'[t].at # "clear",
         \A j \in Job : job'[j] = job[j] \/ job'[j].at # "clear"
  PROVE  /\ dirty' \in [Prefix -> Nat] /\ \A p \in Prefix : dirty'[p] <= generation
         /\ OldIsMarked'
<1>1. /\ dirty' \in [Prefix -> Nat]
      /\ \A p \in Prefix : dirty'[p] = dirty[p] \/ (dirty'[p] = 0 /\ TakesBack(task, p))
  BY DEF Cleared, ReadsInv, ReadsTypeOK, TakesBack
<1>2. \A p \in Prefix : dirty'[p] <= generation
  BY <1>1 DEF ReadsInv, ReadsTypeOK, Bounded
<1>3. \A p \in Prefix : Lasting(p) => dirty'[p] = dirty[p]
  BY <1>1 DEF Lasting
<1>4. \A p \in Prefix : Lasting(p) => Lasting(p)'
  BY <1>3 DEF Lasting, TakesBack
<1>5. OldIsMarked'
  BY <1>4 DEF ReadsInv, OldIsMarked
<1> QED BY <1>1, <1>2, <1>5

LEMMA JobDeletesStep == ASSUME ReadsInv, NEW j \in Job, JobDeletes(j) PROVE ReadsInv'
<1>1. UNCHANGED <<forge, promised, generation, dirty, marked, reader, drain>>
  BY DEF JobDeletes
<1>2. job[j] \in TaskType /\ job[j].gen <= generation /\ job[j].at = "delete"
  BY DEF JobDeletes, ReadsInv, ReadsTypeOK, Bounded
<1>3. PICK failed \in SUBSET job[j].scope :
        /\ Deleted(job[j].scope, failed)
        /\ job' = [job EXCEPT ![j].at = "clear", ![j].ok = failed = {}]
  BY DEF JobDeletes
<1> DEFINE new == [job[j] EXCEPT !.at = "clear", !.ok = failed = {}]
<1>4. /\ new \in TaskType /\ new.gen = job[j].gen /\ new.scope = job[j].scope
      /\ new.ok = (failed = {})
  BY <1>2 DEF TaskType
<1>5. job' \in [Job -> TaskType] /\ \A i \in Job : job'[i] \in {job[i], new}
  BY <1>3, <1>4 DEF ReadsInv, ReadsTypeOK
<1> HIDE DEF new
<1>6. cache' \in [Key -> Content \cup {Nothing}]
  BY <1>3 DEF Deleted, ReadsInv, ReadsTypeOK
<1>7. ReadsTypeOK'
  BY <1>1, <1>5, <1>6 DEF ReadsInv, ReadsTypeOK
<1>8. Bounded' /\ DrainScoped' /\ PromisedIsThere' /\ GotIsCurrent'
  BY <1>1, <1>2, <1>4, <1>5 DEF ReadsInv, Bounded, DrainScoped, PromisedIsThere, GotIsCurrent
<1>9. OldIsMarked'
  <2>1. CASE job[j].scope \in Scope
    BY <1>1, <1>3, <1>4, <1>5, <2>1, DeletesCover
  <2>2. CASE job[j].scope = {}
    <3>1. \A k \in Key : cache'[k] = cache[k]
      BY <1>3, <2>2 DEF Deleted, Covers, ReadsInv, ReadsTypeOK
    <3> QED BY <1>1, <1>4, <1>5, <2>2, <3>1 DEF ReadsInv, OldIsMarked, Lasting, TakesBack
  <2> QED BY <1>2, <2>1, <2>2 DEF TaskType
<1> QED BY <1>7, <1>8, <1>9 DEF ReadsInv

LEMMA NoTaskOK == NoTask \in TaskType /\ NoTask.gen = 0 /\ NoTask.at = "none"
BY DEF NoTask, TaskType

LEMMA JobEndsStep == ASSUME ReadsInv, NEW j \in Job, JobEnds(j) PROVE ReadsInv'
<1>1. UNCHANGED <<forge, promised, cache, generation, marked, reader, drain>>
  BY DEF JobEnds
<1>2. /\ job' \in [Job -> TaskType]
      /\ \A i \in Job : job'[i] = job[i] \/ job'[i] = NoTask
  BY NoTaskOK DEF JobEnds, ReadsInv, ReadsTypeOK
<1>3. /\ dirty' \in [Prefix -> Nat] /\ \A p \in Prefix : dirty'[p] <= generation
      /\ OldIsMarked'
  <2>1. job[j] \in TaskType /\ job[j].at = "clear" /\ dirty' = Cleared(job[j])
    BY DEF JobEnds, ReadsInv, ReadsTypeOK
  <2> QED BY <1>1, <1>2, <2>1, ClearedKeeps, NoTaskOK
<1>4. ReadsTypeOK'
  BY <1>1, <1>2, <1>3 DEF ReadsInv, ReadsTypeOK
<1>5. Bounded' /\ DrainScoped' /\ PromisedIsThere' /\ GotIsCurrent'
  BY <1>1, <1>2, <1>3, NoTaskOK
  DEF ReadsInv, ReadsTypeOK, Bounded, DrainScoped, PromisedIsThere, GotIsCurrent
<1> QED BY <1>3, <1>4, <1>5 DEF ReadsInv

LEMMA JobCancelledStep == ASSUME ReadsInv, NEW j \in Job, JobCancelled(j) PROVE ReadsInv'
<1>1. UNCHANGED <<forge, promised, cache, generation, dirty, marked, reader, drain>>
  BY DEF JobCancelled
<1>2. /\ job' \in [Job -> TaskType]
      /\ \A i \in Job : job'[i] = job[i] \/ job'[i] = NoTask
  BY NoTaskOK DEF JobCancelled, ReadsInv, ReadsTypeOK
<1>3. ReadsTypeOK' /\ Bounded' /\ DrainScoped' /\ PromisedIsThere' /\ GotIsCurrent'
  BY <1>1, <1>2, NoTaskOK
  DEF ReadsInv, ReadsTypeOK, Bounded, DrainScoped, PromisedIsThere, GotIsCurrent
<1>4. OldIsMarked'
  BY <1>1, <1>2, NoTaskOK DEF ReadsInv, OldIsMarked, Lasting, TakesBack
<1> QED BY <1>3, <1>4 DEF ReadsInv

LEMMA DrainStartsStep == ASSUME ReadsInv, NEW s \in Scope, DrainStarts(s) PROVE ReadsInv'
<1>1. UNCHANGED <<forge, promised, cache, generation, dirty, marked, reader, job>>
  BY DEF DrainStarts
<1> DEFINE new == NextRound(s, dirty)
<1>2. /\ new \in TaskType /\ new.gen <= generation /\ new.at \in {"none", "delete"}
      /\ new.at # "none" => new.scope = s
  BY NextRoundOK DEF ReadsInv, ReadsTypeOK, Bounded
<1>3. /\ drain' \in [Scope -> TaskType]
      /\ \A t \in Scope : drain'[t] = drain[t] \/ (drain'[t] = new /\ t = s)
  BY <1>2 DEF DrainStarts, ReadsInv, ReadsTypeOK
<1> HIDE DEF new
<1>4. ReadsTypeOK' /\ Bounded' /\ DrainScoped' /\ PromisedIsThere' /\ GotIsCurrent'
  BY <1>1, <1>2, <1>3
  DEF ReadsInv, ReadsTypeOK, Bounded, DrainScoped, PromisedIsThere, GotIsCurrent
<1>5. OldIsMarked'
  BY <1>1, <1>2, <1>3 DEF ReadsInv, OldIsMarked, Lasting, TakesBack
<1> QED BY <1>4, <1>5 DEF ReadsInv

LEMMA DrainDeletesStep == ASSUME ReadsInv, NEW s \in Scope, DrainDeletes(s) PROVE ReadsInv'
<1>1. UNCHANGED <<forge, promised, generation, dirty, marked, reader, job>>
  BY DEF DrainDeletes
<1>2. drain[s] \in TaskType /\ drain[s].gen <= generation /\ drain[s].scope = s
  BY DEF DrainDeletes, ReadsInv, ReadsTypeOK, Bounded, DrainScoped
<1>3. PICK failed \in SUBSET s :
        /\ Deleted(s, failed)
        /\ drain' = [drain EXCEPT ![s].at = "clear", ![s].ok = failed = {}]
  BY DEF DrainDeletes
<1> DEFINE new == [drain[s] EXCEPT !.at = "clear", !.ok = failed = {}]
<1>4. new \in TaskType /\ new.gen = drain[s].gen /\ new.scope = s /\ new.ok = (failed = {})
  BY <1>2 DEF TaskType
<1>5. /\ drain' \in [Scope -> TaskType]
      /\ \A t \in Scope : drain'[t] = drain[t] \/ (drain'[t] = new /\ t = s)
  BY <1>3, <1>4 DEF ReadsInv, ReadsTypeOK
<1> HIDE DEF new
<1>6. cache' \in [Key -> Content \cup {Nothing}]
  BY <1>3 DEF Deleted, ReadsInv, ReadsTypeOK
<1>7. ReadsTypeOK'
  BY <1>1, <1>5, <1>6 DEF ReadsInv, ReadsTypeOK
<1>8. Bounded' /\ DrainScoped' /\ PromisedIsThere' /\ GotIsCurrent'
  BY <1>1, <1>2, <1>4, <1>5 DEF ReadsInv, Bounded, DrainScoped, PromisedIsThere, GotIsCurrent
<1>9. OldIsMarked'
  BY <1>1, <1>3, <1>4, <1>5, DeletesCover
<1> QED BY <1>7, <1>8, <1>9 DEF ReadsInv

LEMMA DrainRoundStep == ASSUME ReadsInv, NEW s \in Scope, DrainRound(s) PROVE ReadsInv'
<1>1. UNCHANGED <<forge, promised, cache, generation, marked, reader, job>>
  BY DEF DrainRound
<1>2. /\ drain[s] \in TaskType /\ drain[s].at = "clear" /\ dirty' = Cleared(drain[s])
      /\ generation \in Nat
  BY DEF DrainRound, ReadsInv, ReadsTypeOK
<1>3. dirty' \in [Prefix -> Nat] /\ \A p \in Prefix : dirty'[p] <= generation
  BY <1>2 DEF Cleared, ReadsInv, ReadsTypeOK, Bounded
<1> DEFINE round == NextRound(s, dirty')
           new == IF drain[s].ok THEN round ELSE NoTask
<1>4. /\ round \in TaskType /\ round.gen <= generation /\ round.at \in {"none", "delete"}
      /\ round.at # "none" => round.scope = s
  BY <1>2, <1>3, NextRoundOK
<1>5. drain' = [drain EXCEPT ![s] = new]
  BY DEF DrainRound
<1> HIDE DEF round
<1>6. /\ new \in TaskType /\ new.gen <= generation /\ new.at \in {"none", "delete"}
      /\ new.at # "none" => new.scope = s
  BY <1>2, <1>4, NoTaskOK
<1> HIDE DEF new
<1>7. /\ drain' \in [Scope -> TaskType]
      /\ \A t \in Scope : drain'[t] = drain[t] \/ (drain'[t] = new /\ t = s)
  BY <1>5, <1>6 DEF ReadsInv, ReadsTypeOK
<1>8. OldIsMarked'
  BY <1>1, <1>2, <1>6, <1>7, ClearedKeeps
<1>9. ReadsTypeOK'
  BY <1>1, <1>3, <1>7 DEF ReadsInv, ReadsTypeOK
<1>10. Bounded' /\ DrainScoped' /\ PromisedIsThere' /\ GotIsCurrent'
  BY <1>1, <1>3, <1>6, <1>7 DEF ReadsInv, Bounded, DrainScoped, PromisedIsThere, GotIsCurrent
<1> QED BY <1>8, <1>9, <1>10 DEF ReadsInv

-----------------------------------------------------------------------------
(***************************************************************************)
(* The theorems.                                                           *)
(***************************************************************************)
LEMMA ReadsInvInit == ReadsInit => ReadsInv
<1> SUFFICES ASSUME ReadsInit PROVE ReadsInv
  OBVIOUS
<1>1. /\ drain \in [Scope -> TaskType] /\ \A s \in Scope : drain[s] = NoTask
      /\ job \in [Job -> TaskType] /\ \A j \in Job : job[j] = NoTask
      /\ reader \in [Reader -> ReadType] /\ \A r \in Reader : reader[r] = NoRead
  BY NoTaskOK, NoReadOK DEF ReadsInit
<1>2. ReadsTypeOK
  BY <1>1 DEF ReadsInit, ReadsTypeOK, ReadType, Content
<1>3. Bounded /\ DrainScoped /\ PromisedIsThere
  BY <1>1, NoTaskOK, NoReadOK DEF ReadsInit, Bounded, DrainScoped, PromisedIsThere
<1>4. GotIsCurrent /\ OldIsMarked
  BY <1>1 DEF ReadsInit, GotIsCurrent, OldIsMarked, NoRead
<1> QED BY <1>2, <1>3, <1>4 DEF ReadsInv

LEMMA ReadsInvNext == ReadsInv /\ [ReadsNext]_readVars => ReadsInv'
<1> SUFFICES ASSUME ReadsInv, [ReadsNext]_readVars PROVE ReadsInv'
  OBVIOUS
<1>1. CASE Reads(Reader, Key)
  BY <1>1, MissStep, BeginReadStep, ForgeServesStep, StoreStep, EndReadStep, DropStep
  DEF Reads
<1>2. CASE Drains
  BY <1>2, DrainStartsStep, DrainDeletesStep, DrainRoundStep DEF Drains
<1>3. CASE Jobs
  BY <1>3, JobDeletesStep, JobEndsStep, JobCancelledStep DEF Jobs
<1>4. CASE \E w \in Write, ks \in SUBSET Key : ForgeChanges(w, ks)
  BY <1>4, ForgeChangesStep
<1>5. CASE \E s \in Scope : Wrote(s) \/ \E j \in Job : Invalidate(j, s)
  BY <1>5, WroteStep, InvalidateStep
<1>6. CASE UNCHANGED readVars
  BY <1>6 DEF readVars, ReadsInv, ReadsTypeOK, Bounded, DrainScoped, PromisedIsThere,
              GotIsCurrent, OldIsMarked, Lasting, TakesBack
<1> QED BY <1>1, <1>2, <1>3, <1>4, <1>5, <1>6 DEF ReadsNext

LEMMA ReadsInvAlways == ReadsSpec => []ReadsInv
BY ReadsInvInit, ReadsInvNext, PTL DEF ReadsSpec

LEMMA ReadsInvIsCurrent == ReadsInv => CacheIsCurrent
BY DEF ReadsInv, OldIsMarked, Lasting, CacheIsCurrent, IsDirty, ReadsTypeOK

\* Reads, marks, deletions and drains keep the cache and its marks well typed.
THEOREM ReadsTypeCorrect == ReadsSpec => []ReadsTypeOK
<1>1. ReadsInv => ReadsTypeOK
  BY DEF ReadsInv
<1> QED BY <1>1, ReadsInvAlways, PTL

\* However many reads and invalidations run, fail and are cancelled, a read that
\* the cache answers never shows less than the forge had when the key was last
\* invalidated.
THEOREM CacheIsCurrentAlways == ReadsSpec => []CacheIsCurrent
BY ReadsInvAlways, ReadsInvIsCurrent, PTL

-----------------------------------------------------------------------------
(***************************************************************************)
(* Part two.  The operation ledger.                                        *)
(*                                                                         *)
(* What an entry may hold depends on where its call is in the code, and    *)
(* what a waiting call may count on depends on where the owner of its      *)
(* operation is.  LedgerInv says both, for every call; each step of a call *)
(* changes the entry, the request and the place of that call only, so      *)
(* TurnKeeps leaves to each step what it does to its own call.             *)
(***************************************************************************)
(***************************************************************************)
(* What holds of every call, wherever it is.                               *)
(***************************************************************************)
CallType == [at : {"idle", "waiting", "prepare", "sent", "hints", "hinting", "refresh",
                   "refreshing", "ended"},
             on : Call \cup {None}, answer : {"none"} \cup Outcome, cancelled : BOOLEAN]

LedgerTypeOK ==
  /\ ledger \in [Service -> [Op -> Call \cup {None}]]
  /\ entry \in [Call -> EntryType]
  /\ call \in [Call -> CallType]
  /\ request \in [Call -> {"none", "sent", "applied", "refused"}]

\* Where a call has not reserved an entry, and where the owner of one works for it.
Fresh == {"idle", "waiting"}
Working == {"prepare", "sent", "hints", "hinting"}
SameOp(c, d) == ServiceOfCall(c) = ServiceOfCall(d) /\ OpOf[c] = OpOf[d]

\* What a call that waits, or a later one, finds of the owner c.
Tended(c) == call[c].at \notin Fresh /\ (~entry[c].done => call[c].at \in Working)

\* What the entry and the request of a call are where it is.
Stage(c) ==
  /\ call[c].at \in Fresh => entry[c] = NoEntry /\ request[c] = "none"
  /\ call[c].at \in {"prepare", "sent"} =>
       Owner(c) = c /\ entry[c] = NoEntry /\ (call[c].at = "prepare" => request[c] = "none")
  /\ call[c].at \in {"sent", "hints", "hinting", "refresh", "refreshing"} => request[c] # "none"
  /\ call[c].at \in {"hints", "hinting"} => ~entry[c].done /\ entry[c].receipt # "none"
  /\ call[c].at \in {"refresh", "refreshing"} => entry[c].done /\ entry[c].receipt = "unknown"
  /\ call[c].at # "ended" => call[c].answer = "none"

\* What was sent, or has a result, stays the owner; an entry has one result at most.
Retains(c) ==
  /\ request[c] # "none" \/ entry[c].receipt # "none" \/ entry[c].error = "rejected"
       => Owner(c) = c
  /\ EntryOK(entry[c])

\* The call that owns the operation of c is one of that operation, and still
\* works or has left a result.
Bound(c) == Owner(c) # None => SameOp(c, Owner(c)) /\ Tended(Owner(c))

\* A call waits for such a call of its own command.
WaitsWell(c) ==
  call[c].at = "waiting" => /\ call[c].on \in Call /\ SameCommand(c, call[c].on)
                            /\ SameOp(c, call[c].on) /\ Tended(call[c].on)

\* An outcome that was answered is the result the ledger keeps.
AnswerOK(c) ==
  call[c].answer \in Outcome =>
    /\ Owner(c) # None /\ SameCommand(c, Owner(c)) /\ entry[Owner(c)].done
    /\ call[c].answer = ResultOf(Owner(c))

CallOK(c) == Stage(c) /\ Retains(c) /\ Bound(c) /\ WaitsWell(c) /\ AnswerOK(c)

LedgerInv == LedgerTypeOK /\ \A c \in Call : CallOK(c)

-----------------------------------------------------------------------------
(***************************************************************************)
(* What the entries, the owners and the calls are after a step.            *)
(***************************************************************************)
LEMMA OwnerType ==
  ASSUME LedgerTypeOK, NEW c \in Call
  PROVE  ServiceOfCall(c) \in Service /\ OpOf[c] \in Op /\ Owner(c) \in Call \cup {None}
<1>1. ServiceOfCall(c) \in Service
  BY DEF ServiceOfCall, ServiceOf, Service
<1>2. OpOf[c] \in Op
  BY WritesAssumption
<1>. QED BY <1>1, <1>2 DEF Owner, LedgerTypeOK

LEMMA NoneIsNoCall == None \notin Call
  BY WritesAssumption, ReadsAssumption

\* The owners before and after a step.
LEMMA BindOwns ==
  ASSUME LedgerTypeOK, NEW c \in Call, Bind(c), scenario' = scenario
  PROVE  /\ ledger' \in [Service -> [Op -> Call \cup {None}]]
         /\ \A d \in Call : Owner(d)' = IF SameOp(c, d) THEN c ELSE Owner(d)
<1>1. ServiceOfCall(c) \in Service /\ OpOf[c] \in Op
  BY OwnerType
<1>2. ledger' = [ledger EXCEPT ![ServiceOfCall(c)][OpOf[c]] = c]
  BY DEF Bind
<1>3. ledger' \in [Service -> [Op -> Call \cup {None}]]
  BY <1>1, <1>2 DEF LedgerTypeOK
<1>4. ASSUME NEW d \in Call PROVE Owner(d)' = IF SameOp(c, d) THEN c ELSE Owner(d)
  <2>1. ServiceOfCall(d) \in Service /\ OpOf[d] \in Op
    BY OwnerType
  <2>2. Owner(d)' = ledger'[ServiceOfCall(d)][OpOf[d]]
    BY DEF Owner, ServiceOfCall, Kind
  <2>. QED BY <1>1, <1>2, <2>1, <2>2 DEF SameOp, Owner, LedgerTypeOK
<1>. QED BY <1>3, <1>4

LEMMA ReleaseFrees ==
  ASSUME LedgerTypeOK, NEW c \in Call, Released(c), scenario' = scenario
  PROVE  /\ ledger' \in [Service -> [Op -> Call \cup {None}]]
         /\ \A d \in Call : Owner(d)' = IF SameOp(c, d) /\ Owner(d) = c THEN None ELSE Owner(d)
<1>1. ServiceOfCall(c) \in Service /\ OpOf[c] \in Op
  BY OwnerType
<1>2. ledger' = [ledger EXCEPT ![ServiceOfCall(c)][OpOf[c]] = IF @ = c THEN None ELSE @]
  BY DEF Released
<1>3. ledger' \in [Service -> [Op -> Call \cup {None}]]
  BY <1>1, <1>2 DEF LedgerTypeOK
<1>4. ASSUME NEW d \in Call
      PROVE  Owner(d)' = IF SameOp(c, d) /\ Owner(d) = c THEN None ELSE Owner(d)
  <2>1. ServiceOfCall(d) \in Service /\ OpOf[d] \in Op
    BY OwnerType
  <2>2. Owner(d)' = ledger'[ServiceOfCall(d)][OpOf[d]]
    BY DEF Owner, ServiceOfCall, Kind
  <2>. QED BY <1>1, <1>2, <2>1, <2>2 DEF SameOp, Owner, LedgerTypeOK
<1>. QED BY <1>3, <1>4

LEMMA Unmoved ==
  ASSUME UNCHANGED <<scenario, ledger>>
  PROVE  /\ \A c \in Call : Owner(c)' = Owner(c)
         /\ \A c, d \in Call : /\ SameOp(c, d)' <=> SameOp(c, d)
                              /\ SameCommand(c, d)' <=> SameCommand(c, d)
  BY DEF Owner, SameOp, SameCommand, ServiceOfCall, Kind

\* The methods of an entry.
Becomes(c, e) == /\ entry' \in [Call -> EntryType]
                 /\ entry'[c] = e
                 /\ \A d \in Call \ {c} : entry'[d] = entry[d]

LEMMA CompletedEntry ==
  ASSUME LedgerTypeOK, NEW c \in Call, NEW receipt \in {"none", "known", "unknown"},
         NEW resync \in BOOLEAN, Completed(c, receipt, resync)
  PROVE  Becomes(c, [entry[c] EXCEPT !.receipt = receipt, !.resync = resync, !.done = TRUE])
<1> DEFINE e == [entry[c] EXCEPT !.receipt = receipt, !.resync = resync, !.done = TRUE]
<1>1. e \in EntryType /\ entry[c] \in EntryType
  BY DEF LedgerTypeOK, EntryType
<1>2. entry' = [entry EXCEPT ![c] = e]
  BY <1>1 DEF LedgerTypeOK, Completed, EntryType
<1>. QED BY <1>1, <1>2 DEF LedgerTypeOK, Becomes

LEMMA RetainedEntry ==
  ASSUME LedgerTypeOK, NEW c \in Call, NEW receipt \in {"known", "unknown"}, Retained(c, receipt)
  PROVE  Becomes(c, [entry[c] EXCEPT !.receipt = receipt])
  BY ZenonT(60) DEF LedgerTypeOK, Retained, EntryType, Becomes

LEMMA FailedEntry ==
  ASSUME LedgerTypeOK, NEW c \in Call, Failed(c)
  PROVE  Becomes(c, [entry[c] EXCEPT !.error = "rejected", !.done = TRUE])
<1> DEFINE e == [entry[c] EXCEPT !.error = "rejected", !.done = TRUE]
<1>1. e \in EntryType /\ entry[c] \in EntryType
  BY DEF LedgerTypeOK, EntryType
<1>2. entry' = [entry EXCEPT ![c] = e]
  BY <1>1 DEF LedgerTypeOK, Failed, EntryType
<1>. QED BY <1>1, <1>2 DEF LedgerTypeOK, Becomes

LEMMA ReleasedEntry ==
  ASSUME LedgerTypeOK, NEW c \in Call, Released(c)
  PROVE  Becomes(c, [entry[c] EXCEPT !.error = "released", !.done = TRUE])
<1> DEFINE e == [entry[c] EXCEPT !.error = "released", !.done = TRUE]
<1>1. e \in EntryType /\ entry[c] \in EntryType
  BY DEF LedgerTypeOK, EntryType
<1>2. entry' = [entry EXCEPT ![c] = e]
  BY <1>1 DEF LedgerTypeOK, Released, EntryType
<1>. QED BY <1>1, <1>2 DEF LedgerTypeOK, Becomes

\* A call moves.
Goes(c, t) == /\ call' \in [Call -> CallType]
              /\ call'[c] = t
              /\ \A d \in Call \ {c} : call'[d] = call[d]

Over(answer) == [NoCall EXCEPT !.at = "ended", !.answer = answer]

LEMMA AnsweredCall ==
  ASSUME LedgerTypeOK, NEW c \in Call, NEW answer \in {"none"} \cup Outcome, Answered(c, answer)
  PROVE  Goes(c, Over(answer))
<1>1. Over(answer) \in CallType
  BY DEF Over, CallType, NoCall
<1>. QED BY <1>1 DEF LedgerTypeOK, Answered, Goes, Over

-----------------------------------------------------------------------------
(***************************************************************************)
(* The kinds of step.                                                      *)
(***************************************************************************)
\* A step of c that keeps the owners: the other calls find what they found before.
LEMMA TurnKeeps ==
  ASSUME LedgerInv, NEW c \in Call,
         UNCHANGED <<scenario, ledger>>, LedgerTypeOK',
         Stage(c)', Retains(c)', AnswerOK(c)',
         \A d \in Call \ {c} : /\ call'[d] = call[d] /\ entry'[d] = entry[d]
                               /\ request'[d] = request[d],
         call'[c].at = "waiting" => call'[c] = call[c],
         Tended(c) => Tended(c)',
         entry[c].done => entry'[c] = entry[c]
  PROVE  LedgerInv'
<1> SUFFICES ASSUME NEW d \in Call PROVE CallOK(d)'
  BY DEF LedgerInv
<1>1. CallOK(d) /\ LedgerTypeOK /\ CallOK(c)
  BY DEF LedgerInv
<1>2. \A x, y \in Call : /\ (SameOp(x, y))' <=> SameOp(x, y)
                         /\ (SameCommand(x, y))' <=> SameCommand(x, y)
  BY DEF SameOp, SameCommand, ServiceOfCall, Kind
<1>3. Owner(d)' = Owner(d) /\ Owner(d) \in Call \cup {None}
  BY OwnerType, Unmoved, <1>1
<1>4. \A x \in Call : Tended(x) => Tended(x)'
  BY DEF Tended
<1>6. Stage(d)' /\ Retains(d)'
  BY <1>1, <1>3 DEF CallOK, Stage, Retains
<1>7. Bound(d)'
  BY <1>1, <1>2, <1>3, <1>4 DEF CallOK, Bound
<1>8. WaitsWell(d)'
  <2>1. call'[d].at = "waiting" => call'[d] = call[d]
    OBVIOUS
  <2>. QED BY <1>1, <1>2, <1>4, <2>1 DEF CallOK, WaitsWell
<1>9. ASSUME d # c PROVE AnswerOK(d)'
  <2>1. ASSUME call[d].answer \in Outcome
        PROVE  /\ Owner(d) \in Call /\ SameCommand(d, Owner(d)) /\ entry[Owner(d)].done
               /\ call[d].answer = ResultOf(Owner(d))
    BY <1>1, <1>3, <2>1 DEF CallOK, AnswerOK
  <2>2. ASSUME NEW o \in Call, entry[o].done PROVE entry'[o] = entry[o]
    BY <2>2
  <2>3. ASSUME NEW o \in Call, entry'[o] = entry[o] PROVE ResultOf(o)' = ResultOf(o)
    BY <2>3 DEF ResultOf
  <2>4. ASSUME call[d].answer \in Outcome, NEW o \in Call, o = Owner(d)
        PROVE  /\ SameCommand(d, o)' /\ entry'[o].done
               /\ call[d].answer = ResultOf(o)'
    BY <1>2, <2>1, <2>2, <2>3, <2>4
  <2>. QED BY <1>3, <1>9, <2>1, <2>4, NoneIsNoCall DEF AnswerOK
<1>. QED BY <1>6, <1>7, <1>8, <1>9 DEF CallOK

\* The owner that answers with the result it leaves; and who answers with none.
LEMMA OwnAnswer ==
  ASSUME NEW c \in Call, Owner(c)' = c, entry'[c].done,
         call'[c].answer = CASE entry'[c].error = "rejected" -> "rejected"
                             [] entry'[c].error = "released" -> "none"
                             [] OTHER -> entry'[c].receipt
  PROVE  AnswerOK(c)'
<1>1. SameCommand(c, c)'
  BY DEF SameCommand
<1>2. ResultOf(c)' = call'[c].answer
  BY DEF ResultOf
<1>3. \A o \in Call : o = Owner(c)' => AnswerOK(c)'
  <2> SUFFICES ASSUME NEW o \in Call, o = Owner(c)' PROVE AnswerOK(c)'
    OBVIOUS
  <2>1. o = c
    OBVIOUS
  <2>2. o # None /\ SameCommand(c, o)' /\ entry'[o].done /\ call'[c].answer = ResultOf(o)'
    BY <1>1, <1>2, <2>1, NoneIsNoCall
  <2>. QED BY <2>2 DEF AnswerOK
<1>. QED BY <1>3

\* The owner answers with the receipt it leaves, or was cancelled and answers with none.
LEMMA Finishes ==
  ASSUME LedgerInv, NEW c \in Call, UNCHANGED <<scenario, ledger, request>>,
         call[c].at \in {"sent", "hints", "hinting"}, request[c] # "none",
         NEW receipt \in {"known", "unknown"}, NEW resync \in BOOLEAN,
         NEW answer \in {receipt, "none"},
         Becomes(c, [entry[c] EXCEPT !.receipt = receipt, !.resync = resync, !.done = TRUE]),
         Goes(c, Over(answer))
  PROVE  LedgerInv'
<1>1. /\ LedgerTypeOK /\ CallOK(c) /\ Owner(c) = c /\ Owner(c)' = c
      /\ entry[c] \in EntryType /\ call[c] \in CallType /\ entry[c].error = "none" /\ ~entry[c].done
      /\ call[c].answer = "none"
  BY Unmoved DEF LedgerInv, LedgerTypeOK, CallOK, Stage, Retains, EntryOK, NoEntry
<1>2. LedgerTypeOK'
  BY <1>1 DEF LedgerTypeOK, Becomes, Goes
<1>3. /\ entry'[c].receipt = receipt /\ entry'[c].error = "none" /\ entry'[c].done
      /\ call'[c].at = "ended" /\ call'[c].answer = answer
  BY <1>1 DEF Becomes, Goes, Over, NoCall, EntryType
<1>5. Stage(c)' /\ Retains(c)'
  BY <1>1, <1>3 DEF Stage, Retains, EntryOK, Fresh
<1>6. AnswerOK(c)'
  <2>1. CASE answer = "none"
    BY <1>3, <2>1 DEF AnswerOK, Outcome
  <2>2. CASE answer = receipt
    BY <1>1, <1>3, <2>2, OwnAnswer
  <2>. QED BY <2>1, <2>2
<1>7. /\ \A d \in Call \ {c} : /\ call'[d] = call[d] /\ entry'[d] = entry[d]
                                 /\ request'[d] = request[d]
      /\ call'[c].at = "waiting" => call'[c] = call[c]
      /\ Tended(c) => Tended(c)'
      /\ entry[c].done => entry'[c] = entry[c]
  BY <1>1, <1>3 DEF Becomes, Goes, Fresh, Working, Tended
<1>. QED BY <1>1, <1>2, <1>5, <1>6, <1>7, TurnKeeps

\* The receipt is kept and hints follow.
LEMMA Hints ==
  ASSUME LedgerInv, NEW c \in Call, UNCHANGED <<scenario, ledger, request>>,
         call[c].at = "sent", request[c] # "none", NEW receipt \in {"known", "unknown"},
         NEW cancelled \in BOOLEAN,
         Becomes(c, [entry[c] EXCEPT !.receipt = receipt]),
         Goes(c, [call[c] EXCEPT !.at = "hints", !.cancelled = cancelled])
  PROVE  LedgerInv'
<1>1. /\ LedgerTypeOK /\ CallOK(c) /\ Owner(c) = c /\ Owner(c)' = c
      /\ entry[c] \in EntryType /\ call[c] \in CallType /\ entry[c].error = "none" /\ ~entry[c].done
      /\ call[c].answer = "none"
  BY Unmoved DEF LedgerInv, LedgerTypeOK, CallOK, Stage, NoEntry
<1>2. LedgerTypeOK'
  BY <1>1 DEF LedgerTypeOK, Becomes, Goes
<1>3. /\ entry'[c].receipt = receipt /\ entry'[c].error = "none" /\ ~entry'[c].done
      /\ call'[c].at = "hints" /\ call'[c].answer = "none"
  BY <1>1 DEF Becomes, Goes, CallType, EntryType
<1>5. Stage(c)' /\ Retains(c)'
  BY <1>1, <1>3 DEF Stage, Retains, EntryOK, Fresh
<1>6. AnswerOK(c)'
  BY <1>3 DEF AnswerOK, Outcome
<1>7. /\ \A d \in Call \ {c} : /\ call'[d] = call[d] /\ entry'[d] = entry[d]
                                 /\ request'[d] = request[d]
      /\ call'[c].at = "waiting" => call'[c] = call[c]
      /\ Tended(c) => Tended(c)'
      /\ entry[c].done => entry'[c] = entry[c]
  BY <1>1, <1>3 DEF Becomes, Goes, Fresh, Working, Tended
<1>. QED BY <1>1, <1>2, <1>5, <1>6, <1>7, TurnKeeps

\* An unknown outcome is kept and a refresh follows.
LEMMA RefreshFollows ==
  ASSUME LedgerInv, NEW c \in Call, UNCHANGED <<scenario, ledger, request>>,
         call[c].at = "sent", request[c] # "none",
         Becomes(c, [entry[c] EXCEPT !.receipt = "unknown", !.resync = TRUE, !.done = TRUE]),
         Goes(c, [call[c] EXCEPT !.at = "refresh"])
  PROVE  LedgerInv'
<1>1. /\ LedgerTypeOK /\ CallOK(c) /\ Owner(c) = c /\ Owner(c)' = c
      /\ entry[c] \in EntryType /\ call[c] \in CallType /\ entry[c].error = "none" /\ ~entry[c].done
      /\ call[c].answer = "none"
  BY Unmoved DEF LedgerInv, LedgerTypeOK, CallOK, Stage, NoEntry
<1>2. LedgerTypeOK'
  BY <1>1 DEF LedgerTypeOK, Becomes, Goes
<1>3. /\ entry'[c].receipt = "unknown" /\ entry'[c].error = "none" /\ entry'[c].done
      /\ call'[c].at = "refresh" /\ call'[c].answer = "none"
  BY <1>1 DEF Becomes, Goes, CallType, EntryType
<1>5. Stage(c)' /\ Retains(c)'
  BY <1>1, <1>3 DEF Stage, Retains, EntryOK, Fresh
<1>6. AnswerOK(c)'
  BY <1>3 DEF AnswerOK, Outcome
<1>7. /\ \A d \in Call \ {c} : /\ call'[d] = call[d] /\ entry'[d] = entry[d]
                                 /\ request'[d] = request[d]
      /\ call'[c].at = "waiting" => call'[c] = call[c]
      /\ Tended(c) => Tended(c)'
      /\ entry[c].done => entry'[c] = entry[c]
  BY <1>1, <1>3 DEF Becomes, Goes, Fresh, Working, Tended
<1>. QED BY <1>1, <1>2, <1>5, <1>6, <1>7, TurnKeeps

-----------------------------------------------------------------------------
(***************************************************************************)
(* The steps of a call.                                                    *)
(***************************************************************************)
LEMMA StopWaitingStep == ASSUME LedgerInv, NEW c \in Call, StopWaiting(c) PROVE LedgerInv'
<1>1. LedgerTypeOK /\ CallOK(c) /\ UNCHANGED <<scenario, ledger>>
  BY DEF LedgerInv, StopWaiting
<1>2. /\ call[c].at = "waiting" /\ Goes(c, Over("none")) /\ UNCHANGED <<request, entry>>
  BY <1>1, AnsweredCall DEF StopWaiting, At, Outcome
<1>3. Owner(c)' = Owner(c)
  BY <1>1, Unmoved
<1>4. LedgerTypeOK'
  BY <1>1, <1>2 DEF LedgerTypeOK, Goes
<1>5. Stage(c)' /\ Retains(c)'
  BY <1>1, <1>2, <1>3 DEF Goes, Over, CallOK, Stage, Retains, Fresh
<1>6. AnswerOK(c)'
  BY <1>1, <1>2 DEF Goes, Over, AnswerOK, Outcome
<1>7. /\ \A d \in Call \ {c} : /\ call'[d] = call[d] /\ entry'[d] = entry[d]
                                 /\ request'[d] = request[d]
      /\ call'[c].at = "waiting" => call'[c] = call[c]
      /\ Tended(c) => Tended(c)'
      /\ entry[c].done => entry'[c] = entry[c]
  BY <1>1, <1>2 DEF Goes, Over, Fresh, Tended
<1>. QED BY <1>1, <1>4, <1>5, <1>6, <1>7, TurnKeeps

LEMMA SendStep == ASSUME LedgerInv, NEW c \in Call, Send(c) PROVE LedgerInv'
<1>1. LedgerTypeOK /\ CallOK(c) /\ UNCHANGED <<scenario, ledger>>
  BY DEF LedgerInv, Send
<1>2. /\ call[c].at = "prepare" /\ Goes(c, [call[c] EXCEPT !.at = "sent"])
      /\ request' = [request EXCEPT ![c] = "sent"] /\ UNCHANGED entry
  BY <1>1 DEF Send, At, Moved, Goes, LedgerTypeOK, CallType
<1>3. Owner(c)' = Owner(c)
  BY <1>1, Unmoved
<1>4. LedgerTypeOK'
  BY <1>1, <1>2 DEF LedgerTypeOK, Goes
<1>5. Stage(c)' /\ Retains(c)'
  BY <1>1, <1>2, <1>3 DEF LedgerTypeOK, Goes, CallOK, Stage, Retains, Fresh
<1>6. AnswerOK(c)'
  BY <1>1, <1>2 DEF Goes, CallOK, Stage, AnswerOK, Outcome
<1>7. /\ \A d \in Call \ {c} : /\ call'[d] = call[d] /\ entry'[d] = entry[d]
                                 /\ request'[d] = request[d]
      /\ call'[c].at = "waiting" => call'[c] = call[c]
      /\ Tended(c) => Tended(c)'
      /\ entry[c].done => entry'[c] = entry[c]
  BY <1>1, <1>2 DEF Goes, Fresh, Working, Tended
<1>. QED BY <1>1, <1>4, <1>5, <1>6, <1>7, TurnKeeps

LEMMA ForgeRefusesStep == ASSUME LedgerInv, NEW c \in Call, ForgeRefuses(c) PROVE LedgerInv'
<1>1. LedgerTypeOK /\ CallOK(c) /\ UNCHANGED <<scenario, ledger>>
  BY DEF LedgerInv, ForgeRefuses
<1>2. /\ call[c].at = "sent" /\ UNCHANGED <<call, entry>>
      /\ request' = [request EXCEPT ![c] = "refused"]
  BY DEF ForgeRefuses, At
<1>3. Owner(c)' = Owner(c)
  BY <1>1, Unmoved
<1>4. LedgerTypeOK'
  BY <1>1, <1>2 DEF LedgerTypeOK
<1>5. Stage(c)' /\ Retains(c)'
  BY <1>1, <1>2, <1>3 DEF CallOK, Stage, Retains
<1>6. AnswerOK(c)'
  BY <1>1, <1>2 DEF CallOK, Stage, AnswerOK, Outcome
<1>7. /\ \A d \in Call \ {c} : /\ call'[d] = call[d] /\ entry'[d] = entry[d]
                                 /\ request'[d] = request[d]
      /\ call'[c].at = "waiting" => call'[c] = call[c]
      /\ Tended(c) => Tended(c)'
      /\ entry[c].done => entry'[c] = entry[c]
  BY <1>1, <1>2 DEF Tended
<1>. QED BY <1>1, <1>4, <1>5, <1>6, <1>7, TurnKeeps

LEMMA RejectedStep == ASSUME LedgerInv, NEW c \in Call, Rejected(c) PROVE LedgerInv'
<1>1. LedgerTypeOK /\ CallOK(c) /\ UNCHANGED <<scenario, ledger>>
  BY DEF LedgerInv, Rejected, Failed
<1>2. /\ call[c].at = "sent" /\ Goes(c, Over("rejected")) /\ UNCHANGED request
      /\ Becomes(c, [entry[c] EXCEPT !.error = "rejected", !.done = TRUE])
  BY <1>1, FailedEntry, AnsweredCall DEF Rejected, At, Outcome
<1>3. Owner(c)' = Owner(c)
  BY <1>1, Unmoved
<1>4. LedgerTypeOK'
  BY <1>1, <1>2 DEF LedgerTypeOK, Becomes, Goes
<1>5. Stage(c)' /\ Retains(c)'
  BY <1>1, <1>2, <1>3 DEF Becomes, Goes, Over, NoEntry, CallOK, Stage, Retains, EntryOK, Fresh
<1>6. AnswerOK(c)'
  BY <1>1, <1>2, <1>3, OwnAnswer DEF Becomes, Goes, Over, NoCall, NoEntry, CallOK, Stage
<1>7. /\ \A d \in Call \ {c} : /\ call'[d] = call[d] /\ entry'[d] = entry[d]
                                 /\ request'[d] = request[d]
      /\ call'[c].at = "waiting" => call'[c] = call[c]
      /\ Tended(c) => Tended(c)'
      /\ entry[c].done => entry'[c] = entry[c]
  BY <1>1, <1>2 DEF Becomes, Goes, Over, NoEntry, CallOK, Stage, Fresh, Tended
<1>. QED BY <1>1, <1>4, <1>5, <1>6, <1>7, TurnKeeps

LEMMA HintStartsStep == ASSUME LedgerInv, NEW c \in Call, HintStarts(c) PROVE LedgerInv'
<1>1. LedgerTypeOK /\ CallOK(c) /\ UNCHANGED <<scenario, ledger>>
  BY DEF LedgerInv, HintStarts
<1>2. /\ call[c].at = "hints" /\ Goes(c, [call[c] EXCEPT !.at = "hinting"])
      /\ UNCHANGED <<request, entry>>
  BY <1>1 DEF HintStarts, At, Moved, Goes, LedgerTypeOK, CallType
<1>3. Owner(c)' = Owner(c)
  BY <1>1, Unmoved
<1>4. LedgerTypeOK'
  BY <1>1, <1>2 DEF LedgerTypeOK, Goes
<1>5. Stage(c)' /\ Retains(c)'
  BY <1>1, <1>2, <1>3 DEF Goes, CallOK, Stage, Retains, Fresh
<1>6. AnswerOK(c)'
  BY <1>1, <1>2 DEF Goes, CallOK, Stage, AnswerOK, Outcome
<1>7. /\ \A d \in Call \ {c} : /\ call'[d] = call[d] /\ entry'[d] = entry[d]
                                 /\ request'[d] = request[d]
      /\ call'[c].at = "waiting" => call'[c] = call[c]
      /\ Tended(c) => Tended(c)'
      /\ entry[c].done => entry'[c] = entry[c]
  BY <1>1, <1>2 DEF Goes, Fresh, Working, Tended
<1>. QED BY <1>1, <1>4, <1>5, <1>6, <1>7, TurnKeeps

LEMMA CancelInHintsStep == ASSUME LedgerInv, NEW c \in Call, CancelInHints(c) PROVE LedgerInv'
<1>1. LedgerTypeOK /\ CallOK(c) /\ UNCHANGED <<scenario, ledger>>
  BY DEF LedgerInv, CancelInHints
<1>2. /\ call[c].at \in {"hints", "hinting"} /\ UNCHANGED <<request, entry>>
      /\ Goes(c, [call[c] EXCEPT !.cancelled = TRUE])
  BY ZenonT(60), <1>1 DEF CancelInHints, At, Goes, LedgerTypeOK, CallType
<1>3. Owner(c)' = Owner(c)
  BY <1>1, Unmoved
<1>4. LedgerTypeOK'
  BY <1>1, <1>2 DEF LedgerTypeOK, Goes
<1>5. Stage(c)' /\ Retains(c)'
  BY <1>1, <1>2, <1>3 DEF Goes, CallOK, Stage, Retains
<1>6. AnswerOK(c)'
  BY <1>1, <1>2 DEF Goes, CallOK, Stage, AnswerOK, Outcome
<1>7. /\ \A d \in Call \ {c} : /\ call'[d] = call[d] /\ entry'[d] = entry[d]
                                 /\ request'[d] = request[d]
      /\ call'[c].at = "waiting" => call'[c] = call[c]
      /\ Tended(c) => Tended(c)'
      /\ entry[c].done => entry'[c] = entry[c]
  BY <1>1, <1>2 DEF Goes, Tended
<1>. QED BY <1>1, <1>4, <1>5, <1>6, <1>7, TurnKeeps

LEMMA RefreshStartsStep == ASSUME LedgerInv, NEW c \in Call, RefreshStarts(c) PROVE LedgerInv'
<1>1. LedgerTypeOK /\ CallOK(c) /\ UNCHANGED <<scenario, ledger>>
  BY DEF LedgerInv, RefreshStarts
<1>2. /\ call[c].at = "refresh" /\ Goes(c, [call[c] EXCEPT !.at = "refreshing"])
      /\ UNCHANGED <<request, entry>>
  BY <1>1 DEF RefreshStarts, At, Moved, Goes, LedgerTypeOK, CallType
<1>3. Owner(c)' = Owner(c)
  BY <1>1, Unmoved
<1>4. LedgerTypeOK'
  BY <1>1, <1>2 DEF LedgerTypeOK, Goes
<1>5. Stage(c)' /\ Retains(c)'
  BY <1>1, <1>2, <1>3 DEF Goes, CallOK, Stage, Retains, Fresh
<1>6. AnswerOK(c)'
  BY <1>1, <1>2 DEF Goes, CallOK, Stage, AnswerOK, Outcome
<1>7. /\ \A d \in Call \ {c} : /\ call'[d] = call[d] /\ entry'[d] = entry[d]
                                 /\ request'[d] = request[d]
      /\ call'[c].at = "waiting" => call'[c] = call[c]
      /\ Tended(c) => Tended(c)'
      /\ entry[c].done => entry'[c] = entry[c]
  BY <1>1, <1>2 DEF Goes, Fresh, Working, Tended
<1>. QED BY <1>1, <1>4, <1>5, <1>6, <1>7, TurnKeeps

LEMMA RefreshEndsStep == ASSUME LedgerInv, NEW c \in Call, RefreshEnds(c) PROVE LedgerInv'
<1>1. LedgerTypeOK /\ CallOK(c) /\ UNCHANGED <<scenario, ledger>>
  BY DEF LedgerInv, RefreshEnds
<1>2. PICK answer \in {"unknown", "none"} :
        /\ call[c].at \in {"refresh", "refreshing"} /\ Goes(c, Over(answer))
        /\ UNCHANGED <<request, entry>>
  BY <1>1, AnsweredCall DEF RefreshEnds, At, Outcome
<1>3. Owner(c)' = Owner(c)
  BY <1>1, Unmoved
<1>4. LedgerTypeOK'
  BY <1>1, <1>2 DEF LedgerTypeOK, Goes
<1>5. Stage(c)' /\ Retains(c)'
  BY <1>1, <1>2, <1>3 DEF Goes, Over, CallOK, Stage, Retains, Fresh
<1>6. AnswerOK(c)'
  <2>1. /\ entry'[c].done /\ entry'[c].error = "none" /\ entry'[c].receipt = "unknown"
        /\ Owner(c)' = c /\ call'[c].answer = answer
    BY <1>1, <1>2, <1>3 DEF CallOK, Stage, Retains, EntryOK, Goes, Over
  <2>2. CASE answer = "none"
    BY <2>1, <2>2 DEF AnswerOK, Outcome
  <2>3. CASE answer = "unknown"
    BY <2>1, <2>3, OwnAnswer
  <2>. QED BY <2>2, <2>3
<1>7. /\ \A d \in Call \ {c} : /\ call'[d] = call[d] /\ entry'[d] = entry[d]
                                 /\ request'[d] = request[d]
      /\ call'[c].at = "waiting" => call'[c] = call[c]
      /\ Tended(c) => Tended(c)'
      /\ entry[c].done => entry'[c] = entry[c]
  BY <1>1, <1>2 DEF Goes, Over, Fresh, Working, Tended
<1>. QED BY <1>1, <1>4, <1>5, <1>6, <1>7, TurnKeeps

LEMMA CIAnsweredStep == ASSUME LedgerInv, NEW c \in Call, CIAnswered(c) PROVE LedgerInv'
<1>1. /\ LedgerTypeOK /\ CallOK(c) /\ UNCHANGED <<scenario, request>>
      /\ call[c].at = "sent" /\ request[c] # "none"
  BY DEF LedgerInv, CIAnswered, At, CallOK, Stage
<1>2. PICK cancelled \in BOOLEAN : CIOutcome(c, "known", cancelled)
  BY DEF CIAnswered
<1>3. CASE Mine(c) = "open"
  <2>1. Becomes(c, [entry[c] EXCEPT !.receipt = "known"]) /\ UNCHANGED ledger
    BY <1>1, <1>2, <1>3, RetainedEntry DEF CIOutcome, Retained
  <2>2. Goes(c, [call[c] EXCEPT !.at = "hints", !.cancelled = cancelled])
    <3> DEFINE t == [call[c] EXCEPT !.at = "hints", !.cancelled = cancelled]
    <3>1. t \in CallType
      BY <1>1 DEF LedgerTypeOK, CallType
    <3>2. call' = [call EXCEPT ![c] = t]
      BY <1>1, <1>2, <1>3 DEF CIOutcome, LedgerTypeOK, CallType
    <3>. QED BY <1>1, <3>1, <3>2 DEF LedgerTypeOK, Goes
  <2>. QED BY <1>1, <2>1, <2>2, Hints
<1>4. CASE Mine(c) # "open"
  <2>1. /\ Becomes(c, [entry[c] EXCEPT !.receipt = "known", !.resync = TRUE, !.done = TRUE])
        /\ UNCHANGED ledger
    BY <1>1, <1>2, <1>4, CompletedEntry DEF CIOutcome, Completed
  <2>2. PICK answer \in {"known", "none"} : Answered(c, answer)
    BY <1>2, <1>4 DEF CIOutcome
  <2>3. Goes(c, Over(answer))
    BY <1>1, <2>2, AnsweredCall DEF Outcome
  <2>. QED BY ZenonT(60), <1>1, <2>1, <2>3, Finishes
<1>. QED BY <1>3, <1>4

LEMMA CIUncertainStep == ASSUME LedgerInv, NEW c \in Call, CIUncertain(c) PROVE LedgerInv'
<1>1. /\ LedgerTypeOK /\ CallOK(c) /\ UNCHANGED <<scenario, request>>
      /\ call[c].at = "sent" /\ request[c] # "none"
  BY DEF LedgerInv, CIUncertain, At, CallOK, Stage
<1>2. PICK cancelled \in BOOLEAN : CIOutcome(c, "unknown", cancelled)
  BY DEF CIUncertain
<1>3. CASE Mine(c) = "open"
  <2>1. Becomes(c, [entry[c] EXCEPT !.receipt = "unknown"]) /\ UNCHANGED ledger
    BY <1>1, <1>2, <1>3, RetainedEntry DEF CIOutcome, Retained
  <2>2. Goes(c, [call[c] EXCEPT !.at = "hints", !.cancelled = cancelled])
    <3> DEFINE t == [call[c] EXCEPT !.at = "hints", !.cancelled = cancelled]
    <3>1. t \in CallType
      BY <1>1 DEF LedgerTypeOK, CallType
    <3>2. call' = [call EXCEPT ![c] = t]
      BY <1>1, <1>2, <1>3 DEF CIOutcome, LedgerTypeOK, CallType
    <3>. QED BY <1>1, <3>1, <3>2 DEF LedgerTypeOK, Goes
  <2>. QED BY <1>1, <2>1, <2>2, Hints
<1>4. CASE Mine(c) # "open"
  <2>1. /\ Becomes(c, [entry[c] EXCEPT !.receipt = "unknown", !.resync = TRUE, !.done = TRUE])
        /\ UNCHANGED ledger
    BY <1>1, <1>2, <1>4, CompletedEntry DEF CIOutcome, Completed
  <2>2. PICK answer \in {"unknown", "none"} : Answered(c, answer)
    BY <1>2, <1>4 DEF CIOutcome
  <2>3. Goes(c, Over(answer))
    BY <1>1, <2>2, AnsweredCall DEF Outcome
  <2>. QED BY <1>1, <2>1, <2>3, Finishes
<1>. QED BY <1>3, <1>4

LEMMA CommentAnsweredStep == ASSUME LedgerInv, NEW c \in Call, CommentAnswered(c) PROVE LedgerInv'
<1>1. /\ LedgerTypeOK /\ CallOK(c) /\ UNCHANGED <<scenario, ledger, request>>
      /\ call[c].at = "sent" /\ request[c] # "none"
  BY DEF LedgerInv, CommentAnswered, At, Completed
<1>2. Becomes(c, [entry[c] EXCEPT !.receipt = "known", !.resync = TRUE, !.done = TRUE])
  BY <1>1, CompletedEntry DEF CommentAnswered
<1>3. PICK answer \in {"known", "none"} : Answered(c, answer)
  BY DEF CommentAnswered
<1>4. Goes(c, Over(answer))
  BY <1>1, <1>3, AnsweredCall DEF Outcome
<1>. QED BY <1>1, <1>2, <1>4, Finishes

LEMMA ActionAnsweredStep == ASSUME LedgerInv, NEW c \in Call, ActionAnswered(c) PROVE LedgerInv'
<1>1. /\ LedgerTypeOK /\ CallOK(c) /\ UNCHANGED <<scenario, ledger, request>>
      /\ call[c].at = "sent" /\ request[c] # "none"
  BY DEF LedgerInv, ActionAnswered, At, Completed
<1>2. Becomes(c, [entry[c] EXCEPT !.receipt = "known", !.resync = TRUE, !.done = TRUE])
  BY <1>1, CompletedEntry DEF ActionAnswered
<1>3. PICK answer \in {"known", "none"} : Answered(c, answer)
  BY DEF ActionAnswered
<1>4. Goes(c, Over(answer))
  BY <1>1, <1>3, AnsweredCall DEF Outcome
<1>. QED BY <1>1, <1>2, <1>4, Finishes

LEMMA ActionUncertainStep == ASSUME LedgerInv, NEW c \in Call, ActionUncertain(c) PROVE LedgerInv'
<1>1. /\ LedgerTypeOK /\ CallOK(c) /\ UNCHANGED <<scenario, ledger, request>>
      /\ call[c].at = "sent" /\ request[c] # "none"
  BY DEF LedgerInv, ActionUncertain, At, CallOK, Stage, Completed
<1>2. Becomes(c, [entry[c] EXCEPT !.receipt = "unknown", !.resync = TRUE, !.done = TRUE])
  BY <1>1, CompletedEntry DEF ActionUncertain
<1>3. PICK answer \in {"unknown", "none"} : Answered(c, answer)
  BY DEF ActionUncertain
<1>4. Goes(c, Over(answer))
  BY <1>1, <1>3, AnsweredCall DEF Outcome
<1>. QED BY <1>1, <1>2, <1>4, Finishes

LEMMA CommentUncertainStep == ASSUME LedgerInv, NEW c \in Call, CommentUncertain(c) PROVE LedgerInv'
<1>1. /\ LedgerTypeOK /\ CallOK(c) /\ UNCHANGED <<scenario, ledger, request>>
      /\ call[c].at = "sent" /\ request[c] # "none"
  BY DEF LedgerInv, CommentUncertain, At, CallOK, Stage, Completed
<1>2. Becomes(c, [entry[c] EXCEPT !.receipt = "unknown", !.resync = TRUE, !.done = TRUE])
  BY <1>1, CompletedEntry DEF CommentUncertain
<1>3. CASE Moved(c, "refresh")
  <2>1. Goes(c, [call[c] EXCEPT !.at = "refresh"])
    BY <1>1, <1>3 DEF Moved, Goes, LedgerTypeOK, CallType
  <2>. QED BY <1>1, <1>2, <2>1, RefreshFollows
<1>4. CASE Answered(c, "unknown")
  <2>1. Goes(c, Over("unknown"))
    BY <1>1, <1>4, AnsweredCall DEF Outcome
  <2>. QED BY <1>1, <1>2, <2>1, Finishes
<1>. QED BY <1>3, <1>4 DEF CommentUncertain

LEMMA HintEndsStep == ASSUME LedgerInv, NEW c \in Call, HintEnds(c) PROVE LedgerInv'
<1>0. /\ LedgerTypeOK /\ CallOK(c) /\ UNCHANGED <<scenario, ledger, request>>
      /\ call[c].at \in {"hints", "hinting"}
  BY DEF LedgerInv, HintEnds, At, Completed
<1>1. request[c] # "none" /\ entry[c].receipt \in {"known", "unknown"}
  BY <1>0 DEF CallOK, Stage, LedgerTypeOK, EntryType
<1>2. PICK resync \in {~HintOk(c), TRUE} : Completed(c, entry[c].receipt, resync)
  BY DEF HintEnds
<1>3. resync \in BOOLEAN
  OBVIOUS
<1>4. Becomes(c, [entry[c] EXCEPT !.receipt = entry[c].receipt, !.resync = resync, !.done = TRUE])
  BY <1>0, <1>1, <1>2, <1>3, CompletedEntry
<1>5. PICK answer \in {entry[c].receipt, "none"} : Answered(c, answer)
  BY DEF HintEnds
<1>6. Goes(c, Over(answer))
  BY <1>0, <1>1, <1>5, AnsweredCall DEF Outcome
<1>. QED BY <1>0, <1>1, <1>3, <1>4, <1>6, Finishes

LEMMA ForgeAppliesStep == ASSUME LedgerInv, NEW c \in Call, ForgeApplies(c) PROVE LedgerInv'
<1>1. /\ LedgerTypeOK /\ CallOK(c) /\ UNCHANGED <<scenario, ledger, entry, call>>
      /\ request' = [request EXCEPT ![c] = "applied"] /\ request[c] = "sent"
  BY DEF LedgerInv, ForgeApplies
<1>2. LedgerTypeOK'
  BY <1>1 DEF LedgerTypeOK
<1>3. Owner(c)' = Owner(c) /\ request'[c] = "applied"
  BY <1>1, Unmoved DEF LedgerTypeOK
<1>4. Stage(c)' /\ Retains(c)'
  BY <1>1, <1>3 DEF CallOK, Stage, Retains, Fresh
<1>5. AnswerOK(c)'
  BY <1>1, <1>3, Unmoved, OwnerType DEF CallOK, AnswerOK, SameCommand, ResultOf, Kind
<1>6. /\ \A d \in Call \ {c} : /\ call'[d] = call[d] /\ entry'[d] = entry[d]
                                 /\ request'[d] = request[d]
      /\ Tended(c) => Tended(c)'
  BY <1>1 DEF LedgerTypeOK, Tended
<1>. QED BY <1>1, <1>2, <1>4, <1>5, <1>6, TurnKeeps

LEMMA WakeStep == ASSUME LedgerInv, NEW c \in Call, Wake(c) PROVE LedgerInv'
<1>1. /\ LedgerTypeOK /\ CallOK(c) /\ UNCHANGED <<scenario, ledger, entry, request>>
      /\ call[c].at = "waiting"
  BY DEF LedgerInv, Wake, At
<1>2. PICK o \in Call : /\ o = call[c].on /\ SameCommand(c, o) /\ SameOp(c, o)
                       /\ CallOK(o) /\ entry[o].done
  BY <1>1 DEF LedgerInv, CallOK, WaitsWell, Wake
<1>3. ResultOf(o) \in {"none"} \cup Outcome
  BY <1>1, <1>2 DEF ResultOf, Outcome, LedgerTypeOK, EntryType
<1>4. Goes(c, Over(ResultOf(o)))
  BY <1>1, <1>2, <1>3, AnsweredCall DEF Wake
<1>5. LedgerTypeOK'
  BY <1>1, <1>4 DEF LedgerTypeOK, Goes
<1>6. Owner(c)' = Owner(c) /\ call'[c].at = "ended" /\ call'[c].answer = ResultOf(o)
  BY <1>1, <1>4, Unmoved DEF Goes, Over, NoCall
<1>7. Stage(c)' /\ Retains(c)'
  BY <1>1, <1>6 DEF CallOK, Stage, Retains, Fresh
<1>8. AnswerOK(c)'
  <2>1. CASE ResultOf(o) \in Outcome
    <3>1. Owner(o) = o
      BY <1>2, <2>1 DEF ResultOf, Outcome, CallOK, Retains
    <3>2. Owner(c) = o
      BY <1>2, <3>1 DEF SameOp, Owner
    <3>3. SameCommand(c, o)' /\ ResultOf(o)' = ResultOf(o)
      BY <1>1, <1>2, Unmoved DEF ResultOf
    <3>4. entry'[o].done /\ call'[c].answer = ResultOf(o)' /\ o = Owner(c)' /\ o # None
      BY <1>1, <1>2, <1>6, <3>2, <3>3, NoneIsNoCall
    <3>5. \A x \in Call : x = Owner(c)' /\ entry'[x].done /\ call'[c].answer = ResultOf(x)'
                          /\ SameCommand(c, x)' /\ x # None => AnswerOK(c)'
      BY DEF AnswerOK
    <3>. QED BY <1>2, <3>3, <3>4, <3>5
  <2>2. CASE ResultOf(o) \notin Outcome
    BY <1>6, <2>2 DEF AnswerOK
  <2>. QED BY <2>1, <2>2
<1>9. /\ \A d \in Call \ {c} : /\ call'[d] = call[d] /\ entry'[d] = entry[d]
                                 /\ request'[d] = request[d]
      /\ Tended(c) => Tended(c)'
  BY <1>1, <1>4 DEF Goes, Tended, Fresh
<1>. QED BY <1>1, <1>5, <1>6, <1>7, <1>8, <1>9, TurnKeeps

\* A call that is refused, or joins the owner of its operation.
LEMMA JoinStep ==
  ASSUME LedgerInv, NEW c \in Call, UNCHANGED <<scenario, ledger, entry, request>>,
         call[c].at = "idle",
         NEW t \in CallType, call' = [call EXCEPT ![c] = t],
         t.answer = "none",
         \/ t.at = "ended"
         \/ /\ t.at = "waiting" /\ t.on = Owner(c) /\ Owner(c) # None
            /\ SameCommand(c, Owner(c))
  PROVE  LedgerInv'
<1>1. LedgerTypeOK /\ CallOK(c) /\ Goes(c, t) /\ LedgerTypeOK'
  BY DEF LedgerInv, LedgerTypeOK, Goes
<1>2. \A x, y \in Call : /\ (SameOp(x, y))' <=> SameOp(x, y)
                         /\ (SameCommand(x, y))' <=> SameCommand(x, y)
  BY DEF SameOp, SameCommand, ServiceOfCall, Kind
<1>3. \A d \in Call : Owner(d)' = Owner(d) /\ Owner(d) \in Call \cup {None} /\ CallOK(d)
  BY OwnerType, Unmoved, <1>1 DEF LedgerInv
<1>4. \A x \in Call : Tended(x) => Tended(x)'
  BY <1>1 DEF Tended, Goes, Fresh
<1>5. ASSUME NEW d \in Call PROVE Stage(d)' /\ Retains(d)'
  BY <1>1, <1>3 DEF CallOK, Stage, Retains, Goes, Fresh
<1>6. ASSUME NEW d \in Call PROVE Bound(d)'
  BY <1>1, <1>2, <1>3, <1>4 DEF CallOK, Bound
<1>7. ASSUME NEW d \in Call PROVE WaitsWell(d)'
  <2>1. CASE d # c
    BY <1>1, <1>2, <1>3, <1>4, <2>1 DEF CallOK, WaitsWell, Goes
  <2>2. CASE d = c /\ t.at = "waiting"
    <3>1. Owner(c) \in Call /\ SameOp(c, Owner(c)) /\ Tended(Owner(c)) /\ call'[c].on = Owner(c)
          /\ SameCommand(c, Owner(c))
      BY <1>1, <1>3, <2>2 DEF CallOK, Bound, Goes
    <3>. QED BY <1>2, <1>4, <2>2, <3>1 DEF WaitsWell
  <2>3. CASE d = c /\ t.at # "waiting"
    BY <1>1, <2>3 DEF WaitsWell, Goes
  <2>. QED BY <2>1, <2>2, <2>3
<1>8. ASSUME NEW d \in Call PROVE AnswerOK(d)'
  <2>1. CASE d # c
    <3>1. \A o \in Call : ResultOf(o)' = ResultOf(o)
      BY DEF ResultOf
    <3>2. ASSUME call[d].answer \in Outcome
          PROVE  /\ Owner(d) \in Call /\ SameCommand(d, Owner(d)) /\ entry[Owner(d)].done
                 /\ call[d].answer = ResultOf(Owner(d))
      BY <1>3, <3>2 DEF CallOK, AnswerOK
    <3>3. ASSUME call[d].answer \in Outcome, NEW o \in Call, o = Owner(d)
          PROVE  SameCommand(d, o)' /\ entry'[o].done /\ call[d].answer = ResultOf(o)'
      BY <1>2, <3>1, <3>2, <3>3
    <3>. QED BY <1>1, <1>3, <2>1, <3>2, <3>3, NoneIsNoCall DEF AnswerOK, Goes
  <2>2. CASE d = c
    BY <1>1, <2>2 DEF AnswerOK, Goes, Outcome
  <2>. QED BY <2>1, <2>2
<1>. QED BY <1>1, <1>5, <1>6, <1>7, <1>8 DEF LedgerInv, CallOK

\* The first call of an operation, and the first one after a release.
LEMMA OwnStep ==
  ASSUME LedgerInv, NEW c \in Call, UNCHANGED <<scenario, entry, request>>,
         call[c].at = "idle", Owner(c) = None, Bind(c), Moved(c, "prepare")
  PROVE  LedgerInv'
<1>1. LedgerTypeOK /\ CallOK(c) /\ entry[c] = NoEntry /\ request[c] = "none"
  BY DEF LedgerInv, CallOK, Stage, Fresh
<1>2. /\ ledger' \in [Service -> [Op -> Call \cup {None}]]
      /\ \A d \in Call : Owner(d)' = IF SameOp(c, d) THEN c ELSE Owner(d)
  BY <1>1, BindOwns
<1>3. Goes(c, [call[c] EXCEPT !.at = "prepare"])
  BY <1>1 DEF Moved, Goes, LedgerTypeOK, CallType
<1>4. LedgerTypeOK'
  BY <1>1, <1>2, <1>3 DEF LedgerTypeOK, Goes
<1>5. \A x, y \in Call : /\ (SameOp(x, y))' <=> SameOp(x, y)
                         /\ (SameCommand(x, y))' <=> SameCommand(x, y)
  BY DEF SameOp, SameCommand, ServiceOfCall, Kind
<1>6. \A x \in Call : Tended(x) => Tended(x)'
  BY <1>1, <1>3 DEF Tended, Goes, Fresh
<1>7. \A d \in Call : SameOp(c, d) => Owner(d) = None
  BY DEF SameOp, Owner
<1>8. call'[c].at = "prepare" /\ call'[c].answer = "none"
  BY <1>1, <1>3 DEF Goes, CallOK, Stage, LedgerTypeOK, CallType
<1>9. Tended(c)'
  BY <1>8 DEF Tended, Fresh, Working
<1>10. \A d \in Call : CallOK(d) /\ Owner(d) \in Call \cup {None}
  BY <1>1, OwnerType DEF LedgerInv
<1>11. ASSUME NEW d \in Call PROVE Stage(d)' /\ Retains(d)'
  <2>1. CASE d # c
    BY <1>2, <1>3, <1>7, <1>10, <2>1, NoneIsNoCall DEF CallOK, Stage, Retains, Goes
  <2>2. CASE d = c
    BY <1>1, <1>2, <1>8, <2>2 DEF Stage, Retains, NoEntry, EntryOK, SameOp
  <2>. QED BY <2>1, <2>2
<1>12. ASSUME NEW d \in Call PROVE Bound(d)'
  <2>1. CASE SameOp(c, d)
    BY <1>2, <1>5, <1>9, <2>1 DEF Bound, SameOp
  <2>2. CASE ~SameOp(c, d)
    BY <1>2, <1>5, <1>6, <1>10, <2>2 DEF Bound, CallOK
  <2>. QED BY <2>1, <2>2
<1>13. ASSUME NEW d \in Call PROVE WaitsWell(d)'
  <2>1. CASE d # c
    BY <1>3, <1>5, <1>6, <1>10, <2>1 DEF CallOK, WaitsWell, Goes
  <2>2. CASE d = c
    BY <1>8, <2>2 DEF WaitsWell
  <2>. QED BY <2>1, <2>2
<1>14. ASSUME NEW d \in Call PROVE AnswerOK(d)'
  <2>1. CASE d # c
    <3>1. \A o \in Call : ResultOf(o)' = ResultOf(o)
      BY DEF ResultOf
    <3>2. ASSUME call[d].answer \in Outcome
          PROVE  /\ Owner(d) \in Call /\ SameCommand(d, Owner(d)) /\ entry[Owner(d)].done
                 /\ call[d].answer = ResultOf(Owner(d)) /\ Owner(d)' = Owner(d)
      BY <1>2, <1>7, <1>10, <3>2, NoneIsNoCall DEF CallOK, AnswerOK
    <3>3. ASSUME call[d].answer \in Outcome, NEW o \in Call, o = Owner(d)
          PROVE  SameCommand(d, o)' /\ entry'[o].done /\ call[d].answer = ResultOf(o)'
      BY <1>5, <3>1, <3>2, <3>3
    <3>. QED BY <1>3, <2>1, <3>2, <3>3, NoneIsNoCall DEF AnswerOK, Goes
  <2>2. CASE d = c
    BY <1>8, <2>2 DEF AnswerOK, Outcome
  <2>. QED BY <2>1, <2>2
<1>. QED BY <1>4, <1>11, <1>12, <1>13, <1>14 DEF LedgerInv, CallOK

LEMMA ReserveStep == ASSUME LedgerInv, NEW c \in Call, Reserve(c) PROVE LedgerInv'
<1>1. /\ LedgerTypeOK /\ CallOK(c) /\ call[c].at = "idle" /\ call[c].answer = "none"
      /\ UNCHANGED <<scenario, entry, request>>
  BY DEF LedgerInv, Reserve, At, CallOK, Stage
<1>2. CASE Refused(c)
  <2>1. UNCHANGED ledger /\ Answered(c, "none")
    BY <1>2 DEF Reserve
  <2>2. /\ Over("none") \in CallType /\ Over("none").at = "ended" /\ Over("none").answer = "none"
        /\ call' = [call EXCEPT ![c] = Over("none")]
    BY <2>1 DEF Over, CallType, NoCall, Outcome, Answered
  <2>. QED BY <1>1, <2>1, <2>2, JoinStep
<1>3. CASE ~Refused(c) /\ Owner(c) = None
  BY <1>1, <1>3, OwnStep DEF Reserve
<1>4. CASE ~Refused(c) /\ Owner(c) # None
  <2> DEFINE t == [call[c] EXCEPT !.at = "waiting", !.on = Owner(c)]
  <2>1. UNCHANGED ledger /\ SameCommand(c, Owner(c))
    BY <1>4 DEF Reserve, Refused
  <2>2. t \in CallType /\ t.at = "waiting" /\ t.on = Owner(c) /\ t.answer = "none"
    BY <1>1, OwnerType DEF LedgerTypeOK, CallType
  <2>3. call' = [call EXCEPT ![c] = t]
    BY <1>1, <1>4 DEF Reserve, LedgerTypeOK, CallType
  <2>. QED BY <1>1, <1>4, <2>1, <2>2, <2>3, JoinStep
<1>. QED BY <1>2, <1>3, <1>4

LEMMA PrepareFailsStep == ASSUME LedgerInv, NEW c \in Call, PrepareFails(c) PROVE LedgerInv'
<1>1. /\ LedgerTypeOK /\ CallOK(c) /\ call[c].at = "prepare" /\ Owner(c) = c
      /\ entry[c] = NoEntry /\ request[c] = "none" /\ UNCHANGED <<scenario, request>>
  BY DEF LedgerInv, PrepareFails, At, CallOK, Stage
<1>2. /\ ledger' \in [Service -> [Op -> Call \cup {None}]]
      /\ \A d \in Call : Owner(d)' = IF SameOp(c, d) /\ Owner(d) = c THEN None ELSE Owner(d)
  BY <1>1, ReleaseFrees DEF PrepareFails
<1>3. Goes(c, Over("none")) /\ Becomes(c, [entry[c] EXCEPT !.error = "released", !.done = TRUE])
  BY <1>1, AnsweredCall, ReleasedEntry DEF PrepareFails
<1>4. LedgerTypeOK'
  BY <1>1, <1>2, <1>3 DEF LedgerTypeOK, Goes, Becomes
<1>5. \A x, y \in Call : /\ (SameOp(x, y))' <=> SameOp(x, y)
                         /\ (SameCommand(x, y))' <=> SameCommand(x, y)
  BY <1>1 DEF SameOp, SameCommand, ServiceOfCall, Kind
<1>6. /\ call'[c].at = "ended" /\ call'[c].answer = "none" /\ entry'[c].done
      /\ entry'[c].receipt = "none" /\ entry'[c].error = "released"
  BY <1>1, <1>3 DEF Goes, Over, NoCall, Becomes, NoEntry
<1>7. \A x \in Call : Tended(x) => Tended(x)'
  BY <1>3, <1>6 DEF Tended, Goes, Becomes, Fresh
<1>10. \A d \in Call : CallOK(d) /\ Owner(d) \in Call \cup {None}
  BY <1>1, OwnerType DEF LedgerInv
<1>11. ASSUME NEW d \in Call PROVE Stage(d)' /\ Retains(d)'
  <2>1. CASE d # c
    BY <1>1, <1>2, <1>3, <1>10, <2>1 DEF CallOK, Stage, Retains, Goes, Becomes
  <2>2. CASE d = c
    BY <1>1, <1>6, <2>2 DEF Stage, Retains, Fresh, EntryOK
  <2>. QED BY <2>1, <2>2
<1>12. ASSUME NEW d \in Call PROVE Bound(d)'
  BY <1>2, <1>5, <1>7, <1>10 DEF Bound, CallOK
<1>13. ASSUME NEW d \in Call PROVE WaitsWell(d)'
  <2>1. CASE d # c
    BY <1>3, <1>5, <1>7, <1>10, <2>1 DEF CallOK, WaitsWell, Goes
  <2>2. CASE d = c
    BY <1>6, <2>2 DEF WaitsWell
  <2>. QED BY <2>1, <2>2
<1>14. ASSUME NEW d \in Call PROVE AnswerOK(d)'
  <2>1. CASE d # c
    <3>2. ASSUME call[d].answer \in Outcome
          PROVE  /\ Owner(d) \in Call /\ SameCommand(d, Owner(d)) /\ entry[Owner(d)].done
                 /\ call[d].answer = ResultOf(Owner(d)) /\ Owner(d)' = Owner(d)
                 /\ Owner(d) # c
      BY <1>1, <1>2, <1>10, <3>2, NoneIsNoCall DEF CallOK, AnswerOK, NoEntry
    <3>3. ASSUME call[d].answer \in Outcome, NEW o \in Call, o = Owner(d)
          PROVE  SameCommand(d, o)' /\ entry'[o] = entry[o]
      BY <1>3, <1>5, <3>2, <3>3 DEF Becomes
    <3>4. \A o \in Call : entry'[o] = entry[o] => ResultOf(o)' = ResultOf(o)
      BY DEF ResultOf
    <3>5. ASSUME call[d].answer \in Outcome, NEW o \in Call, o = Owner(d)
          PROVE  SameCommand(d, o)' /\ entry'[o].done /\ call[d].answer = ResultOf(o)'
      BY <3>2, <3>3, <3>4, <3>5
    <3>. QED BY <1>3, <2>1, <3>2, <3>5, NoneIsNoCall DEF AnswerOK, Goes
  <2>2. CASE d = c
    BY <1>6, <2>2 DEF AnswerOK, Outcome
  <2>. QED BY <2>1, <2>2
<1>. QED BY <1>4, <1>11, <1>12, <1>13, <1>14 DEF LedgerInv, CallOK

-----------------------------------------------------------------------------
(***************************************************************************)
(* The invariant, and what follows from it.                                *)
(***************************************************************************)
LEMMA LedgerInvInit == Init => LedgerInv
<1> SUFFICES ASSUME Init PROVE LedgerInv
  OBVIOUS
<1>1. LedgerTypeOK
  BY DEF Init, LedgerTypeOK, NoEntry, EntryType, NoCall, CallType
<1>2. ASSUME NEW c \in Call PROVE CallOK(c)
  <2>1. Owner(c) = None
    BY <1>1, OwnerType DEF Init, Owner, ServiceOfCall, ServiceOf, Service
  <2>. QED BY <2>1 DEF Init, NoEntry, NoCall, CallOK, Stage, Retains, EntryOK, Bound, WaitsWell,
                       AnswerOK, Outcome
<1>. QED BY <1>1, <1>2 DEF LedgerInv

LEMMA LedgerUnchanged ==
  ASSUME LedgerInv, UNCHANGED <<scenario, ledger, entry, call, request>> PROVE LedgerInv'
<1>1. LedgerTypeOK /\ LedgerTypeOK'
  BY DEF LedgerInv, LedgerTypeOK
<1>2. ASSUME NEW c \in Call PROVE CallOK(c)'
  <2>1. CallOK(c) /\ Owner(c)' = Owner(c)
    BY Unmoved DEF LedgerInv
  <2>. QED BY <2>1 DEF CallOK, Stage, Retains, Bound, Tended, WaitsWell, AnswerOK, SameOp,
                       SameCommand,
                       ServiceOfCall, Kind, ResultOf
<1>. QED BY <1>1, <1>2 DEF LedgerInv

LEMMA LedgerInvNext == LedgerInv /\ [Next]_vars => LedgerInv'
<1> SUFFICES ASSUME LedgerInv, [Next]_vars PROVE LedgerInv'
  OBVIOUS
<1>1. CASE \/ UNCHANGED vars \/ UserRefreshes \/ Cached \/ \E s \in Service : Close(s)
  <2>1. UNCHANGED <<scenario, ledger, entry, call, request>>
    BY <1>1 DEF vars, writeVars, UserRefreshes, Cached, Close
  <2>. QED BY <2>1, LedgerUnchanged
<1>2. ASSUME NEW c \in Call,
             \/ Reserve(c) \/ Wake(c) \/ StopWaiting(c) \/ PrepareFails(c) \/ Send(c)
             \/ ForgeApplies(c) \/ ForgeRefuses(c) \/ HintStarts(c) \/ HintEnds(c)
             \/ CancelInHints(c) \/ RefreshStarts(c) \/ RefreshEnds(c)
      PROVE  LedgerInv'
  BY <1>2, ReserveStep, WakeStep, StopWaitingStep, PrepareFailsStep, SendStep, ForgeAppliesStep,
     ForgeRefusesStep, HintStartsStep, HintEndsStep, CancelInHintsStep, RefreshStartsStep,
     RefreshEndsStep
<1>3. ASSUME NEW c \in Call, Finish(c) PROVE LedgerInv'
  BY <1>3, RejectedStep, CIAnsweredStep, CIUncertainStep, CommentAnsweredStep,
     CommentUncertainStep, ActionAnsweredStep, ActionUncertainStep DEF Finish
<1>. QED BY <1>1, <1>2, <1>3 DEF Next

LEMMA LedgerInvAlways == Spec => []LedgerInv
BY LedgerInvInit, LedgerInvNext, PTL DEF Spec

\* An operation id is sent at most once, and the ledger keeps the entry of the
\* call that sent it (operation_ledger.py).
THEOREM SentOnceAlways == Spec => []SentOnce
<1>1. LedgerInv => SentOnce
  BY DEF LedgerInv, CallOK, Retains, SentOnce, Owner
<1>. QED BY <1>1, LedgerInvAlways, PTL

\* All calls of one operation that get its outcome get the one the ledger keeps.
THEOREM SameAnswerAlways == Spec => []SameAnswer
<1>1. LedgerInv => SameAnswer
  BY DEF LedgerInv, CallOK, AnswerOK, SameAnswer
<1>. QED BY <1>1, LedgerInvAlways, PTL

\* A call that waits has a call that works behind the entry it waits for, in every
\* service and at every stage of its close.
THEOREM NobodyForgottenAlways == Spec => []NobodyForgotten
<1>1. LedgerInv => NobodyForgotten
  BY DEF LedgerInv, CallOK, WaitsWell, Tended, Working, NobodyForgotten, At
<1>. QED BY <1>1, LedgerInvAlways, PTL

-----------------------------------------------------------------------------
(***************************************************************************)
(* Part three.                                                             *)
(***************************************************************************)
(***************************************************************************)
(* The services implement the cache they use.                              *)
(***************************************************************************)
ScenarioOK == scenario \in Scenario

LEMMA SameScenario == [Next]_vars => scenario' = scenario
  BY DEF Next, vars, writeVars, Reserve, Wake, StopWaiting, PrepareFails, Send,
         ForgeApplies, ForgeRefuses, Finish, Rejected, CIAnswered, CIUncertain,
         CommentAnswered, CommentUncertain, ActionAnswered, ActionUncertain,
         HintStarts, HintEnds, CancelInHints, RefreshStarts, RefreshEnds, Close,
         UserRefreshes, Cached

LEMMA ScenarioAlways == Spec => []ScenarioOK
<1>1. Init => ScenarioOK
  BY WritesAssumption DEF Init, ScenarioOK
<1>2. ScenarioOK /\ [Next]_vars => ScenarioOK'
  BY SameScenario DEF ScenarioOK
<1> QED BY <1>1, <1>2, PTL DEF Spec

LEMMA ScopesOK ==
  ASSUME NEW c \in Call
  PROVE  /\ {List} \in Scope /\ ScopeOf(c) \in Scope /\ ReviewScope(ReviewOf[c]) \in Scope
         /\ Affects(c) \in SUBSET Key
         /\ c \in Job /\ c \in Write
<1>1. ReviewOf[c] \in Review /\ c \in Job /\ c \in Write
  BY WritesAssumption
<1>2. {List} \in Scope /\ {Repo} \in Scope /\ ReviewScope(ReviewOf[c]) \in Scope
  BY <1>1 DEF Scope
<1> QED BY <1>1, <1>2 DEF ScopeOf, Affects, Key

LEMMA StepRefines == ScenarioOK /\ [Next]_vars => [ReadsNext]_readVars
<1> SUFFICES ASSUME ScenarioOK, [Next]_vars PROVE [ReadsNext]_readVars
  OBVIOUS
<1>1. CASE UNCHANGED vars
  BY <1>1 DEF vars
<1>2. CASE UserRefreshes
  BY <1>2, ScopesOK, WritesAssumption DEF UserRefreshes, ReadsNext, Scope
<1>3. CASE Cached
  <2>1. Reads(scenario.readers, scenario.shown) => Reads(Reader, Key)
    BY DEF Reads, ScenarioOK, Scenario
  <2> QED BY <1>3, <2>1, WritesAssumption DEF Cached, ReadsNext, Jobs
<1>4. CASE \E s \in Service : Close(s)
  BY <1>4 DEF Close
<1>5. ASSUME NEW c \in Call,
             \/ Reserve(c) \/ Wake(c) \/ StopWaiting(c) \/ PrepareFails(c) \/ Send(c)
             \/ ForgeRefuses(c) \/ Rejected(c) \/ CIAnswered(c) \/ CIUncertain(c)
             \/ CommentUncertain(c) \/ ActionUncertain(c) \/ CancelInHints(c)
      PROVE  UNCHANGED readVars
  BY <1>5 DEF Reserve, Wake, StopWaiting, PrepareFails, Send, ForgeRefuses, Rejected,
              CIAnswered, CIUncertain, CommentUncertain, ActionUncertain, CancelInHints
<1>6. ASSUME NEW c \in Call, ForgeApplies(c) PROVE ReadsNext
  BY <1>6, ScopesOK DEF ForgeApplies, ReadsNext
<1>7. ASSUME NEW c \in Call, CommentAnswered(c) \/ ActionAnswered(c) PROVE ReadsNext
  BY <1>7, ScopesOK DEF CommentAnswered, ActionAnswered, ReadsNext
<1>8. ASSUME NEW c \in Call, HintStarts(c) \/ RefreshStarts(c) PROVE ReadsNext
  BY <1>8, ScopesOK DEF HintStarts, RefreshStarts, ReadsNext
<1>9. ASSUME NEW c \in Call, HintEnds(c) \/ RefreshEnds(c)
      PROVE  UNCHANGED readVars \/ ReadsNext
  BY <1>9, ScopesOK DEF HintEnds, RefreshEnds, ReadsNext, Jobs
<1> QED BY <1>1, <1>2, <1>3, <1>4, <1>5, <1>6, <1>7, <1>8, <1>9 DEF Next, Finish

\* The services use the cache only as its specification allows: whatever they do,
\* it behaves as the response cache alone.
THEOREM ImplementsReads == Spec => ReadsSpec
<1>1. Init => ReadsInit
  BY DEF Init
<1> QED BY <1>1, ScenarioAlways, StepRefines, PTL DEF Spec, ReadsSpec

\* What the cache answers is current under all the writes of the three services.
THEOREM WritesCacheIsCurrent == Spec => []CacheIsCurrent
BY ImplementsReads, CacheIsCurrentAlways, PTL

-----------------------------------------------------------------------------
(***************************************************************************)
(* Reads after writes: what a call that knows its outcome may count on.    *)
(***************************************************************************)
\* The receipt of c tells its caller that reads show the change.
Knows(c) == /\ entry[c].done /\ entry[c].receipt = "known"
            /\ Kind(c) = "ci" => ~entry[c].resync

Applied(c) == \A k \in Affects(c) : c \in forge[k]
Promised(c) == \A k \in Affects(c) : c \in promised[k]

\* A receipt is known when the forge has made the change, and by the time it says
\* so to the reader the keys it affects have been invalidated since.
Told(c) ==
  /\ request[c] = "applied" => Applied(c)
  /\ entry[c].receipt = "known" => request[c] = "applied"
  /\ call[c].at \in {"hints", "hinting"} => Kind(c) = "ci"
  /\ call[c].at = "hinting" /\ entry[c].receipt = "known" => Promised(c)
  /\ Knows(c) => Promised(c)

ToldInv == \A c \in Call : Told(c)

\* Content is never taken back, neither on the forge nor from what is promised.
LEMMA ContentGrows ==
  ASSUME ReadsInv, [ReadsNext]_readVars
  PROVE  \A k \in Key : forge[k] \subseteq forge'[k] /\ promised[k] \subseteq promised'[k]
<1>. USE DEF readVars
<1>1. ReadsTypeOK /\ PromisedIsThere
  BY DEF ReadsInv
<1>2. CASE UNCHANGED <<forge, promised>>
  BY <1>2
<1>3. ASSUME NEW s \in Scope, Mark(s)
      PROVE  \A k \in Key : forge[k] \subseteq forge'[k] /\ promised[k] \subseteq promised'[k]
  BY <1>1, <1>3 DEF Mark, ReadsTypeOK, PromisedIsThere
<1>4. ASSUME NEW w \in Write, NEW ks \in SUBSET Key, ForgeChanges(w, ks)
      PROVE  \A k \in Key : forge[k] \subseteq forge'[k] /\ promised[k] \subseteq promised'[k]
  BY SMTT(60), <1>1, <1>4 DEF ForgeChanges, ReadsTypeOK
<1>5. Reads(Reader, Key) \/ Drains \/ Jobs => UNCHANGED <<forge, promised>>
  BY DEF Reads, Drains, Jobs, Miss, BeginRead, ForgeServes, Store, EndRead, Drop, DrainStarts,
         DrainDeletes, DrainRound, JobDeletes, JobEnds, JobCancelled
<1>. QED BY <1>2, <1>3, <1>4, <1>5 DEF ReadsNext, Wrote, Invalidate

\* A mark on the keys of a change that was made promises it.
LEMMA MarkPromises ==
  ASSUME ReadsInv, NEW c \in Call, NEW ps \in Scope, Mark(ps), Applied(c),
         \A k \in Affects(c) : k \in Key /\ Covers(ps, k)
  PROVE  \A k \in Affects(c) : c \in promised'[k]
  BY DEF Mark, Applied

LEMMA ScopeCovers ==
  ASSUME NEW c \in Call
  PROVE  \A k \in Affects(c) :
           k \in Key /\ Covers(IF Kind(c) = "ci" THEN {List} ELSE ScopeOf(c), k)
<1>1. ReviewOf[c] \in Review
  BY WritesAssumption
<1>. QED BY <1>1 DEF Affects, ScopeOf, ReviewScope, Covers, Under, Key

\* A step that leaves the entry of a call alone and moves it neither to its hints
\* nor into the request to the forge.
LEMMA StaysTold ==
  ASSUME ToldInv, NEW c \in Call, scenario' = scenario,
         \A k \in Key : forge[k] \subseteq forge'[k] /\ promised[k] \subseteq promised'[k],
         entry'[c] = entry[c] \/ entry'[c].receipt # "known",
         request'[c] = request[c] \/ (request[c] # "applied" /\ request'[c] # "applied"),
         call'[c].at \in {"hints", "hinting"} =>
           call'[c].at = call[c].at \/ (entry'[c].receipt # "known" /\ Kind(c) = "ci")
  PROVE  Told(c)'
<1>1. /\ Kind(c)' = Kind(c) /\ Affects(c)' = Affects(c) /\ Told(c)
      /\ \A k \in Affects(c) : k \in Key
  BY ScopeCovers DEF ToldInv, Kind, Affects
<1>2. (Applied(c) => Applied(c)') /\ (Promised(c) => Promised(c)')
  BY <1>1 DEF Applied, Promised
<1>. QED BY <1>1, <1>2 DEF Told, Knows

\* A step that makes a receipt known: the change has been made, and its keys are
\* invalidated in this step, or the receipt asks for a refresh.
LEMMA BecomesTold ==
  ASSUME ToldInv, ReadsInv, NEW c \in Call, scenario' = scenario,
         \A k \in Key : forge[k] \subseteq forge'[k] /\ promised[k] \subseteq promised'[k],
         request[c] = "applied", request'[c] = "applied",
         call'[c].at \in {"hints", "ended"},
         call'[c].at = "hints" => Kind(c) = "ci" /\ ~entry'[c].done,
         \/ Mark(ScopeOf(c)) /\ Kind(c) # "ci"
         \/ Kind(c) = "ci" /\ entry'[c].resync
         \/ ~entry'[c].done
  PROVE  Told(c)'
<1>1. /\ Kind(c)' = Kind(c) /\ Affects(c)' = Affects(c) /\ Told(c)
      /\ \A k \in Affects(c) : k \in Key
  BY ScopeCovers DEF ToldInv, Kind, Affects
<1>2. Applied(c) /\ Applied(c)'
  BY <1>1 DEF Applied, Told
<1>3. ASSUME Knows(c)' PROVE Promised(c)'
  <2>1. Mark(ScopeOf(c)) /\ Kind(c) # "ci"
    BY <1>1, <1>3 DEF Knows
  <2>. QED BY <1>1, <1>2, <2>1, MarkPromises, ScopeCovers, ScopesOK DEF Promised
<1>. QED BY <1>1, <1>2, <1>3 DEF Told

\* What a step of c leaves to the other calls.
OthersStay(c) == \A d \in Call \ {c} : /\ call'[d] = call[d] /\ entry'[d] = entry[d]
                                       /\ request'[d] = request[d]

\* What is kept of a CI action that ended, in an open service and in a closed one.
LEMMA OutcomeOfCI ==
  ASSUME LedgerTypeOK, NEW c \in Call, NEW receipt \in {"known", "unknown"},
         NEW cancelled \in BOOLEAN, CIOutcome(c, receipt, cancelled), request' = request
  PROVE  /\ OthersStay(c) /\ entry'[c].receipt = receipt /\ call'[c].at \in {"hints", "ended"}
         /\ call'[c].at = "hints" => entry'[c].done = entry[c].done
         /\ call'[c].at = "ended" => entry'[c].done /\ entry'[c].resync
<1>1. CASE Mine(c) = "open"
  <2>1. Becomes(c, [entry[c] EXCEPT !.receipt = receipt])
    BY <1>1, RetainedEntry DEF CIOutcome
  <2>2. call'[c].at = "hints" /\ \A d \in Call \ {c} : call'[d] = call[d]
    BY <1>1 DEF CIOutcome, LedgerTypeOK, CallType
  <2>. QED BY <2>1, <2>2 DEF Becomes, OthersStay, LedgerTypeOK, EntryType
<1>2. CASE Mine(c) # "open"
  <2>1. Becomes(c, [entry[c] EXCEPT !.receipt = receipt, !.resync = TRUE, !.done = TRUE])
    BY <1>2, CompletedEntry DEF CIOutcome
  <2>2. call'[c].at = "ended" /\ \A d \in Call \ {c} : call'[d] = call[d]
    BY ZenonT(60), <1>2 DEF CIOutcome, Answered, NoCall, LedgerTypeOK
  <2>. QED BY <2>1, <2>2 DEF Becomes, OthersStay, LedgerTypeOK, EntryType
<1>. QED BY <1>1, <1>2

\* The steps that make no receipt known.
LEMMA QuietStep ==
  ASSUME LedgerInv, ToldInv, NEW c \in Call, scenario' = scenario,
         \A k \in Key : forge[k] \subseteq forge'[k] /\ promised[k] \subseteq promised'[k],
         \/ Reserve(c) \/ Wake(c) \/ StopWaiting(c) \/ PrepareFails(c) \/ Send(c)
         \/ ForgeRefuses(c) \/ Rejected(c) \/ CIUncertain(c) \/ CommentUncertain(c)
         \/ ActionUncertain(c) \/ CancelInHints(c) \/ RefreshStarts(c) \/ RefreshEnds(c)
  PROVE  OthersStay(c) /\ Told(c)'
<1>1. LedgerTypeOK /\ Stage(c)
  BY DEF LedgerInv, CallOK
<1>2. CASE Reserve(c) \/ Wake(c) \/ StopWaiting(c)
  <2>1. /\ OthersStay(c) /\ entry'[c] = entry[c] /\ request'[c] = request[c]
        /\ call'[c].at \notin {"hints", "hinting"}
    <3>1. CASE Reserve(c)
      <4>1. /\ entry' = entry /\ request' = request
            /\ \/ Answered(c, "none") \/ Moved(c, "prepare")
               \/ call' = [call EXCEPT ![c].at = "waiting", ![c].on = Owner(c)]
        BY Zenon, <3>1 DEF Reserve
      <4>2. call \in [Call -> CallType] /\ call[c] \in CallType
        BY <1>1 DEF LedgerTypeOK
      <4>3. \A d \in Call \ {c} : call'[d] = call[d]
        BY <4>1, <4>2 DEF Answered, Moved
      <4>4. call'[c].at \in {"ended", "prepare", "waiting"}
        <5>1. CASE Answered(c, "none")
          BY <4>2, <5>1 DEF Answered, NoCall
        <5>2. CASE Moved(c, "prepare")
          BY <4>2, <5>2 DEF Moved, CallType
        <5>3. CASE call' = [call EXCEPT ![c].at = "waiting", ![c].on = Owner(c)]
          BY <4>2, <5>3 DEF CallType
        <5>. QED BY <4>1, <5>1, <5>2, <5>3
      <4>. QED BY <4>1, <4>3, <4>4 DEF OthersStay
    <3>2. CASE Wake(c) \/ StopWaiting(c)
      <4>1. \E answer : Answered(c, answer)
        BY <3>2 DEF Wake, StopWaiting
      <4>. QED BY <1>1, <3>2, <4>1 DEF Wake, StopWaiting, Answered,
                                         OthersStay, NoCall, LedgerTypeOK
    <3>. QED BY <1>2, <3>1, <3>2
  <2>. QED BY <2>1, StaysTold
<1>3. CASE Send(c) \/ ForgeRefuses(c)
  <2>1. /\ OthersStay(c) /\ UNCHANGED entry /\ request[c] # "applied" /\ request'[c] # "applied"
        /\ call'[c].at = "sent"
    BY <1>1, <1>3 DEF Send, ForgeRefuses, Moved, At, OthersStay, LedgerTypeOK, CallType, Stage
  <2>. QED BY <2>1, StaysTold
<1>4. CASE PrepareFails(c) \/ Rejected(c)
  <2>1. entry[c] = NoEntry /\ request'[c] = request[c]
    BY <1>1, <1>4 DEF PrepareFails, Rejected, At, Stage
  <2>2. OthersStay(c) /\ call'[c].at = "ended" /\ entry'[c].receipt # "known"
    BY <1>1, <1>4, <2>1 DEF PrepareFails, Rejected, Released, Failed, Answered, NoCall, NoEntry,
                            OthersStay, LedgerTypeOK, EntryType
  <2>. QED BY <2>1, <2>2, StaysTold
<1>5. CASE CIUncertain(c) \/ CommentUncertain(c) \/ ActionUncertain(c)
  <2>1. /\ OthersStay(c) /\ request'[c] = request[c] /\ entry'[c].receipt = "unknown"
        /\ call'[c].at \in {"hints", "ended", "refresh"}
        /\ (call'[c].at = "hints" => Kind(c) = "ci")
    <3>1. CASE CIUncertain(c)
      <4>1. PICK cancelled \in BOOLEAN : CIOutcome(c, "unknown", cancelled)
        BY <3>1 DEF CIUncertain
      <4>. QED BY <1>1, <3>1, <4>1, OutcomeOfCI DEF CIUncertain
    <3>2. CASE CommentUncertain(c)
      <4>1. Becomes(c, [entry[c] EXCEPT !.receipt = "unknown", !.resync = TRUE, !.done = TRUE])
        BY <1>1, <3>2, CompletedEntry DEF CommentUncertain
      <4>2. /\ \A d \in Call \ {c} : call'[d] = call[d]
            /\ call'[c].at \in {"refresh", "ended"}
        <5>1. call \in [Call -> CallType] /\ call[c] \in CallType
          BY <1>1 DEF LedgerTypeOK
        <5>2. CASE Moved(c, "refresh")
          BY <5>1, <5>2 DEF Moved, CallType
        <5>3. ASSUME NEW answer, Answered(c, answer)
              PROVE  /\ \A d \in Call \ {c} : call'[d] = call[d]
                     /\ call'[c].at = "ended"
          BY <5>1, <5>3 DEF Answered, NoCall
        <5>. QED BY <3>2, <5>2, <5>3 DEF CommentUncertain
      <4>. QED BY <1>1, <3>2, <4>1, <4>2 DEF CommentUncertain, Becomes, OthersStay, LedgerTypeOK,
                                             EntryType
    <3>3. CASE ActionUncertain(c)
      <4>1. Becomes(c, [entry[c] EXCEPT !.receipt = "unknown", !.resync = TRUE, !.done = TRUE])
        BY <1>1, <3>3, CompletedEntry DEF ActionUncertain
      <4>2. \A d \in Call \ {c} : call'[d] = call[d]
        BY <1>1, <3>3 DEF ActionUncertain, Answered, NoCall, LedgerTypeOK
      <4>3. call'[c].at = "ended"
        BY <1>1, <3>3 DEF ActionUncertain, Answered, NoCall, LedgerTypeOK
      <4>. QED BY <1>1, <3>3, <4>1, <4>2, <4>3 DEF ActionUncertain, Becomes, OthersStay,
                                                   LedgerTypeOK, EntryType
    <3>. QED BY <1>5, <3>1, <3>2, <3>3
  <2>. QED BY <2>1, StaysTold
<1>6. CASE CancelInHints(c)
  <2>1. /\ OthersStay(c) /\ entry'[c] = entry[c] /\ request'[c] = request[c]
        /\ call'[c].at = call[c].at
    BY <1>1, <1>6 DEF CancelInHints, OthersStay, LedgerTypeOK, CallType
  <2>. QED BY <2>1, StaysTold
<1>7. CASE RefreshStarts(c) \/ RefreshEnds(c)
  <2>1. /\ OthersStay(c) /\ entry'[c] = entry[c] /\ request'[c] = request[c]
        /\ call'[c].at \notin {"hints", "hinting"}
    BY ZenonT(60), <1>1, <1>7 DEF RefreshStarts, RefreshEnds, Moved, Answered, NoCall, OthersStay,
                      LedgerTypeOK, CallType
  <2>. QED BY <2>1, StaysTold
<1>. QED BY <1>2, <1>3, <1>4, <1>5, <1>6, <1>7

\* The forge makes the change.
LEMMA ForgeAppliesTold ==
  ASSUME LedgerInv, ReadsInv, ToldInv, NEW c \in Call, ForgeApplies(c)
  PROVE  OthersStay(c) /\ Told(c)'
<1>1. /\ scenario' = scenario /\ UNCHANGED <<call, entry, promised>> /\ request[c] = "sent"
      /\ OthersStay(c) /\ request'[c] = "applied" /\ Told(c)
  BY DEF ForgeApplies, ForgeChanges, OthersStay, LedgerInv, LedgerTypeOK, ToldInv
<1>2. Kind(c)' = Kind(c) /\ Affects(c)' = Affects(c) /\ \A k \in Affects(c) : k \in Key
  BY <1>1, ScopeCovers DEF Kind, Affects
<1>3. Applied(c)'
  BY <1>2 DEF ForgeApplies, ForgeChanges, Applied
<1>. QED BY <1>1, <1>2, <1>3 DEF Told, Knows

\* The answers that tell of success, and the hints that follow.
LEMMA AnsweredTold ==
  ASSUME LedgerInv, ReadsInv, ToldInv, NEW c \in Call, scenario' = scenario,
         \A k \in Key : forge[k] \subseteq forge'[k] /\ promised[k] \subseteq promised'[k],
         CIAnswered(c) \/ CommentAnswered(c) \/ ActionAnswered(c)
  PROVE  OthersStay(c) /\ Told(c)'
<1>1. /\ LedgerTypeOK /\ Stage(c) /\ UNCHANGED request
      /\ request[c] = "applied" /\ request'[c] = "applied"
      /\ entry[c] = NoEntry
  BY DEF LedgerInv, CallOK, CIAnswered, CommentAnswered, ActionAnswered, Stage, At
<1>2. CASE CIAnswered(c)
  <2>1. Kind(c) = "ci" /\ CIOutcome(c, "known", FALSE) /\ UNCHANGED request
    BY <1>2 DEF CIAnswered
  <2>2. /\ OthersStay(c) /\ call'[c].at \in {"hints", "ended"}
        /\ call'[c].at = "hints" => entry'[c].done = entry[c].done
        /\ call'[c].at = "ended" => entry'[c].done /\ entry'[c].resync
    BY <1>1, <2>1, OutcomeOfCI
  <2>3. ~entry[c].done
    BY <1>1 DEF NoEntry
  <2>. QED BY <1>1, <2>1, <2>2, <2>3, BecomesTold
<1>3. CASE CommentAnswered(c) \/ ActionAnswered(c)
  <2>1. Kind(c) # "ci" /\ Mark(ScopeOf(c)) /\ Completed(c, "known", TRUE)
    BY <1>3 DEF CommentAnswered, ActionAnswered, Wrote, ServiceOfCall, ServiceOf
  <2>2. call'[c].at = "ended" /\ \A d \in Call \ {c} : call'[d] = call[d]
    BY <1>1, <1>3 DEF CommentAnswered, ActionAnswered, Answered, NoCall, LedgerTypeOK
  <2>3. OthersStay(c)
    BY <1>1, <2>1, <2>2, CompletedEntry DEF Becomes, OthersStay
  <2>. QED BY <1>1, <2>1, <2>2, <2>3, BecomesTold
<1>. QED BY <1>2, <1>3

LEMMA HintStartsTold ==
  ASSUME LedgerInv, ReadsInv, ToldInv, NEW c \in Call, scenario' = scenario,
         \A k \in Key : forge[k] \subseteq forge'[k] /\ promised[k] \subseteq promised'[k],
         HintStarts(c)
  PROVE  OthersStay(c) /\ Told(c)'
<1>1. /\ LedgerTypeOK /\ Told(c) /\ Kind(c) = "ci" /\ UNCHANGED <<entry, request>>
      /\ ~entry[c].done /\ Mark({List})
  BY DEF LedgerInv, CallOK, Stage, HintStarts, Invalidate, ToldInv, Told, At
<1>2. OthersStay(c) /\ call'[c].at = "hinting"
  BY <1>1 DEF HintStarts, Moved, OthersStay, LedgerTypeOK, CallType
<1>3. Kind(c)' = Kind(c) /\ Affects(c)' = Affects(c)
  BY DEF Kind, Affects
<1>4. Applied(c) => Applied(c)'
  BY <1>3, ScopeCovers DEF Applied
<1>5. Applied(c) => Promised(c)'
  BY <1>1, <1>3, MarkPromises, ScopeCovers, ScopesOK DEF Promised
<1>. QED BY <1>1, <1>2, <1>3, <1>4, <1>5 DEF Told, Knows

LEMMA HintEndsTold ==
  ASSUME LedgerInv, ToldInv, NEW c \in Call, scenario' = scenario,
         \A k \in Key : forge[k] \subseteq forge'[k] /\ promised[k] \subseteq promised'[k],
         HintEnds(c)
  PROVE  OthersStay(c) /\ Told(c)'
<1>1. /\ LedgerTypeOK /\ Told(c) /\ Kind(c) = "ci" /\ UNCHANGED request
      /\ entry[c] \in EntryType
  BY DEF LedgerInv, LedgerTypeOK, HintEnds, ToldInv, Told, At
<1>2. PICK resync \in {~HintOk(c), TRUE} : Completed(c, entry[c].receipt, resync)
  BY DEF HintEnds
<1>3. /\ OthersStay(c) /\ call'[c].at = "ended" /\ entry'[c].receipt = entry[c].receipt
      /\ entry'[c].resync = resync
  <2>1. Becomes(c, [entry[c] EXCEPT !.receipt = entry[c].receipt, !.resync = resync,
                                    !.done = TRUE])
    BY <1>1, <1>2, CompletedEntry DEF EntryType
  <2>2. call'[c].at = "ended" /\ \A d \in Call \ {c} : call'[d] = call[d]
    BY ZenonT(60), <1>1 DEF HintEnds, Answered, NoCall, LedgerTypeOK
  <2>. QED BY <1>1, <2>1, <2>2 DEF Becomes, OthersStay, EntryType
<1>4. /\ Kind(c)' = Kind(c) /\ Affects(c)' = Affects(c) /\ \A k \in Affects(c) : k \in Key
  BY ScopeCovers DEF Kind, Affects
<1>5. (Applied(c) => Applied(c)') /\ (Promised(c) => Promised(c)')
  BY <1>4 DEF Applied, Promised
<1>6. ASSUME Knows(c)' PROVE Promised(c)
  <2>1. entry[c].receipt = "known" /\ ~resync
    BY <1>1, <1>3, <1>4, <1>6 DEF Knows
  <2>2. At(c, "hinting")
    BY <1>2, <2>1 DEF HintOk
  <2>. QED BY <1>1, <2>1, <2>2 DEF Told, At
<1>. QED BY <1>1, <1>3, <1>4, <1>5, <1>6 DEF Told

LEMMA ToldInit == Init => ToldInv
<1> SUFFICES ASSUME Init, NEW c \in Call PROVE Told(c)
  BY DEF ToldInv
<1>. QED BY DEF Init, Told, Knows, NoEntry, NoCall

LEMMA ToldNext ==
  ScenarioOK /\ LedgerInv /\ ReadsInv /\ ToldInv /\ [Next]_vars => ToldInv'
<1> SUFFICES ASSUME ScenarioOK, LedgerInv, ReadsInv, ToldInv, [Next]_vars PROVE ToldInv'
  OBVIOUS
<1>1. \A k \in Key : forge[k] \subseteq forge'[k] /\ promised[k] \subseteq promised'[k]
  BY StepRefines, ContentGrows
<1>2. scenario' = scenario
  BY SameScenario
<1>3. CASE \/ UNCHANGED vars \/ UserRefreshes \/ Cached \/ \E s \in Service : Close(s)
  <2>1. UNCHANGED <<entry, call, request>>
    BY <1>3 DEF vars, writeVars, UserRefreshes, Cached, Close
  <2>. QED BY <1>1, <1>2, <2>1, StaysTold DEF ToldInv
<1>4. ASSUME NEW c \in Call, OthersStay(c), Told(c)' PROVE ToldInv'
  <2>1. ASSUME NEW d \in Call \ {c} PROVE Told(d)'
    BY <1>1, <1>2, <1>4, StaysTold DEF OthersStay
  <2>. QED BY <1>4, <2>1 DEF ToldInv
<1>5. ASSUME NEW c \in Call,
             \/ Reserve(c) \/ Wake(c) \/ StopWaiting(c) \/ PrepareFails(c) \/ Send(c)
             \/ ForgeRefuses(c) \/ Rejected(c) \/ CIUncertain(c) \/ CommentUncertain(c)
             \/ ActionUncertain(c) \/ CancelInHints(c) \/ RefreshStarts(c) \/ RefreshEnds(c)
      PROVE  ToldInv'
  BY <1>1, <1>2, <1>4, <1>5, QuietStep
<1>6. ASSUME NEW c \in Call, ForgeApplies(c) PROVE ToldInv'
  BY <1>4, <1>6, ForgeAppliesTold
<1>7. ASSUME NEW c \in Call, CIAnswered(c) \/ CommentAnswered(c) \/ ActionAnswered(c)
      PROVE  ToldInv'
  BY <1>1, <1>2, <1>4, <1>7, AnsweredTold
<1>8. ASSUME NEW c \in Call, HintStarts(c) \/ HintEnds(c) PROVE ToldInv'
  BY <1>1, <1>2, <1>4, <1>8, HintStartsTold, HintEndsTold
<1>. QED BY <1>3, <1>5, <1>6, <1>7, <1>8 DEF Next, Finish

\* After a write is known to have succeeded, and the receipt of a CI action does not
\* ask for a refresh, the cache answers no read with content from before it: the
\* write is promised, and what the cache answers shows what is promised.
THEOREM ReadYourWritesAlways == Spec => []ReadYourWrites
<1>1. ToldInv /\ ReadsInv => ReadYourWrites
  <2> SUFFICES ASSUME ToldInv, ReadsInv, NEW c \in Call, Knows(c), NEW k \in Affects(c),
                      ~IsDirty(k) /\ cache[k] # Nothing
               PROVE  c \in cache[k]
    BY DEF ReadYourWrites, Knows
  <2>1. k \in Key /\ c \in promised[k]
    BY ScopeCovers DEF ToldInv, Told, Promised
  <2>. QED BY <2>1, ReadsInvIsCurrent DEF CacheIsCurrent
<1>2. Spec => []ReadsInv
  BY ImplementsReads, ReadsInvAlways, PTL
<1>. QED BY <1>1, <1>2, ScenarioAlways, LedgerInvAlways, ToldInit, ToldNext, PTL DEF Spec
===============================================================================

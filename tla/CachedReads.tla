----------------------------- MODULE CachedReads -----------------------------
(***************************************************************************)
(* The response cache of one repository (tongs/cache/cached_client.py on   *)
(* tongs/cache/store.py): reads that store what the forge returned,        *)
(* writes and refreshes that mark key prefixes dirty, and the tasks that   *)
(* delete the stored entries and then take the mark back.                  *)
(*                                                                         *)
(* Everything runs in one event loop, and one database thread serves its   *)
(* statements in the order they are queued: a statement takes effect for   *)
(* the other tasks when it is queued, in the same step as the code before  *)
(* it.  Content is the set of writes it shows, so older content is a       *)
(* subset of newer content.                                                *)
(***************************************************************************)
EXTENDS Naturals

CONSTANTS Review,   \* the numbers of the reviews of the repository
          List,     \* the key of the review list; also the prefix "mrs"
          Repo,     \* the prefix of everything the repository has cached
          Write,    \* changes on the forge
          Reader,   \* tasks that read through the cache
          Job,      \* tasks that invalidate on behalf of somebody who waits
          None      \* makes up the content of a key without an entry

ASSUME ReadsAssumption == /\ List \notin Review /\ Repo \notin Review \cup {List}
                          /\ None \notin Write

VARIABLES forge,        \* of each key: the content on the forge
          promised,     \* of each key: the content when it was last invalidated
          cache,        \* of each key: the stored content, or Nothing
          generation,   \* _dirty_generation
          dirty,        \* _dirty_review_prefixes; 0 for a prefix without a mark
          marked,       \* _marked_generations; 0 for a prefix without one
          reader,       \* of each reader: a read that missed the cache
          drain,        \* of each scope: its background invalidation
          job           \* of each job: the invalidation it runs

readVars == <<forge, promised, cache, generation, dirty, marked, reader, drain, job>>

Key == Review \cup {List}
Prefix == Key \cup {Repo}
Content == SUBSET Write
Nothing == {None}

\* _key_under: a key is below its own prefix and below the repository's.
Under(k, p) == p \in {k, Repo}
Covers(ps, k) == \E p \in ps : Under(k, p)

\* The prefixes that are invalidated together: a write to a review, a change
\* of the list, a merge.
ReviewScope(n) == {List, n}
Scope == {ReviewScope(n) : n \in Review} \cup {{List}, {Repo}}

NoRead == [at |-> "idle", key |-> List, gen |-> 0, got |-> {}]
NoTask == [at |-> "none", scope |-> {}, gen |-> 0, ok |-> FALSE]

IsDirty(k) == \E p \in Prefix : Under(k, p) /\ dirty[p] > 0

ReadsInit ==
  /\ forge = [k \in Key |-> {}] /\ promised = [k \in Key |-> {}]
  /\ cache = [k \in Key |-> Nothing]
  /\ generation = 0
  /\ dirty = [p \in Prefix |-> 0] /\ marked = [p \in Prefix |-> 0]
  /\ reader = [r \in Reader |-> NoRead]
  /\ drain = [s \in Scope |-> NoTask] /\ job = [j \in Job |-> NoTask]

(***************************************************************************)
(* Marks.                                                                  *)
(***************************************************************************)
InFlight(rs) == {r \in Reader : rs[r].at \in {"fetch", "served", "storing"}}

\* A mutant: keeps no mark for the reads that are still in flight.
PrunedAll(m, rs) == [p \in Prefix |-> 0]

\* _prune_marked_generations: a mark goes when no read in flight is older.
Pruned(m, rs) ==
  [p \in Prefix |-> IF \E r \in InFlight(rs) : rs[r].gen < m[p] THEN m[p] ELSE 0]

\* _mark_review_dirty
Mark(ps) ==
  /\ generation' = generation + 1
  /\ dirty' = [p \in Prefix |-> IF p \in ps THEN generation + 1 ELSE dirty[p]]
  /\ marked' = Pruned([p \in Prefix |-> IF p \in ps THEN generation + 1 ELSE marked[p]],
                      reader)
  /\ promised' = [k \in Key |-> IF Covers(ps, k) THEN forge[k] ELSE promised[k]]
  /\ UNCHANGED <<forge, cache, reader>>

\* A mutant: asks only whether the key is dirty now.
MayStoreClean(k, gen) == ~IsDirty(k)

\* _may_store
MayStore(k, gen) == ~ \E p \in Prefix : Under(k, p) /\ marked[p] > gen

(***************************************************************************)
(* Reads.  A read of a dirty key goes to the forge and leaves the cache    *)
(* alone, a hit returns what is stored: neither changes anything.          *)
(***************************************************************************)
SetRead(r, read) == reader' = [reader EXCEPT ![r] = read]

Miss(r, k) ==
  /\ reader[r].at = "idle" /\ ~IsDirty(k) /\ cache[k] = Nothing
  /\ SetRead(r, [NoRead EXCEPT !.at = "lookup", !.key = k])
  /\ UNCHANGED <<forge, promised, cache, generation, dirty, marked, drain, job>>

\* _begin_read, after the look-up or, for a fresh CI status, instead of it.
BeginRead(r) ==
  /\ \/ reader[r].at = "lookup" /\ SetRead(r, [reader[r] EXCEPT !.at = "fetch", !.gen = generation])
     \/ /\ reader[r].at = "idle" /\ ~IsDirty(List)
        /\ SetRead(r, [NoRead EXCEPT !.at = "fetch", !.gen = generation])
  /\ UNCHANGED <<forge, promised, cache, generation, dirty, marked, drain, job>>

ForgeServes(r) ==
  /\ reader[r].at = "fetch"
  /\ SetRead(r, [reader[r] EXCEPT !.at = "served", !.got = forge[reader[r].key]])
  /\ UNCHANGED <<forge, promised, cache, generation, dirty, marked, drain, job>>

\* The answer arrives; the statement that stores it may fail.
Store(r) ==
  LET read == reader[r]
  IN /\ read.at = "served" /\ MayStore(read.key, read.gen)
     /\ \/ cache' = [cache EXCEPT ![read.key] = read.got]
        \/ cache' = cache
     /\ SetRead(r, [read EXCEPT !.at = "storing"])
     /\ UNCHANGED <<forge, promised, generation, dirty, marked, drain, job>>

\* _end_read: stored, not to be stored, failed or cancelled.  A look-up that ends
\* without a read has no mark to prune.
EndRead(r) ==
  /\ reader[r].at # "idle"
  /\ SetRead(r, NoRead) /\ marked' = Pruned(marked, reader')
  /\ UNCHANGED <<forge, promised, cache, generation, dirty, drain, job>>

\* The lifetime of an entry ends, the size limit drops it, or a later page of
\* the list is read.
Drop(k) ==
  /\ cache[k] # Nothing /\ cache' = [cache EXCEPT ![k] = Nothing]
  /\ UNCHANGED <<forge, promised, generation, dirty, marked, reader, drain, job>>

\* A change on the forge that some reads show.
ForgeChanges(w, ks) ==
  /\ forge' = [k \in Key |-> IF k \in ks THEN forge[k] \cup {w} ELSE forge[k]]
  /\ UNCHANGED <<promised, cache, generation, dirty, marked, reader, drain, job>>

(***************************************************************************)
(* Invalidations: _invalidate_marked queues one DELETE for each prefix,    *)
(* and takes the marks of its own generation back once all have succeeded. *)
(***************************************************************************)
Deleting(s, gen) == [at |-> "delete", scope |-> s, gen |-> gen, ok |-> FALSE]

Deleted(s, failed) ==
  cache' = [k \in Key |-> IF Covers(s \ failed, k) THEN Nothing ELSE cache[k]]

\* A mutant: takes every mark of the scope back, newer ones too.
ClearedAll(task) ==
  [p \in Prefix |-> IF task.ok /\ p \in task.scope THEN 0 ELSE dirty[p]]

Cleared(task) ==
  [p \in Prefix |-> IF task.ok /\ p \in task.scope /\ dirty[p] = task.gen THEN 0
                    ELSE dirty[p]]

\* invalidate_review_list_reads, invalidate_review_reads
Invalidate(j, s) ==
  /\ job[j].at = "none" /\ Mark(s)
  /\ job' = [job EXCEPT ![j] = Deleting(s, generation + 1)]
  /\ UNCHANGED drain

JobDeletes(j) ==
  /\ job[j].at = "delete"
  /\ \E failed \in SUBSET job[j].scope :
       /\ Deleted(job[j].scope, failed)
       /\ job' = [job EXCEPT ![j].at = "clear", ![j].ok = failed = {}]
  /\ UNCHANGED <<forge, promised, generation, dirty, marked, reader, drain>>

JobEnds(j) ==
  /\ job[j].at = "clear"
  /\ dirty' = Cleared(job[j])
  /\ job' = [job EXCEPT ![j] = NoTask]
  /\ UNCHANGED <<forge, promised, cache, generation, marked, reader, drain>>

JobCancelled(j) ==
  /\ job[j].at # "none"
  /\ job' = [job EXCEPT ![j] = NoTask]
  /\ UNCHANGED <<forge, promised, cache, generation, dirty, marked, reader, drain>>

\* The condition of the loop in _drain_review_invalidation, on marks d: every
\* prefix of the scope still has one, and the newest of them counts.
NextRound(s, d) ==
  IF \E p \in s : d[p] = 0 THEN NoTask
  ELSE Deleting(s, CHOOSE g \in {d[p] : p \in s} : \A p \in s : d[p] <= g)

\* A write through the client has succeeded: _finish_review_mutation, and the
\* end of merge_mr.  A running drain of the scope goes round again by itself.
Wrote(s) ==
  /\ Mark(s)
  /\ drain' = IF drain[s].at # "none" THEN drain
              ELSE [drain EXCEPT ![s] = [NoTask EXCEPT !.at = "new", !.scope = s]]
  /\ UNCHANGED job

DrainStarts(s) ==
  /\ drain[s].at = "new" /\ drain' = [drain EXCEPT ![s] = NextRound(s, dirty)]
  /\ UNCHANGED <<forge, promised, cache, generation, dirty, marked, reader, job>>

DrainDeletes(s) ==
  /\ drain[s].at = "delete"
  /\ \E failed \in SUBSET s :
       /\ Deleted(s, failed)
       /\ drain' = [drain EXCEPT ![s].at = "clear", ![s].ok = failed = {}]
  /\ UNCHANGED <<forge, promised, generation, dirty, marked, reader, job>>

DrainRound(s) ==
  /\ drain[s].at = "clear" /\ dirty' = Cleared(drain[s])
  /\ drain' = [drain EXCEPT ![s] = IF @.ok THEN NextRound(s, dirty') ELSE NoTask]
  /\ UNCHANGED <<forge, promised, cache, generation, marked, reader, job>>

Reads(rs, ks) ==
  \/ \E r \in rs : \/ \E k \in ks : Miss(r, k)
                  \/ BeginRead(r) \/ ForgeServes(r) \/ Store(r) \/ EndRead(r)
  \/ \E k \in ks : Drop(k)

Drains == \E s \in Scope : DrainStarts(s) \/ DrainDeletes(s) \/ DrainRound(s)

Jobs == \E j \in Job : JobDeletes(j) \/ JobEnds(j) \/ JobCancelled(j)

ReadsNext == \/ Reads(Reader, Key) \/ Drains \/ Jobs
             \/ \E w \in Write, ks \in SUBSET Key : ForgeChanges(w, ks)
             \/ \E s \in Scope : Wrote(s) \/ \E j \in Job : Invalidate(j, s)

ReadsSpec == ReadsInit /\ [][ReadsNext]_readVars

(***************************************************************************)
(* Properties.                                                             *)
(***************************************************************************)
TaskType == [at : {"none", "new", "delete", "clear"},
             scope : Scope \cup {{}}, gen : Nat, ok : BOOLEAN]

ReadsTypeOK ==
  /\ forge \in [Key -> Content] /\ promised \in [Key -> Content]
  /\ cache \in [Key -> Content \cup {Nothing}]
  /\ generation \in Nat /\ dirty \in [Prefix -> Nat] /\ marked \in [Prefix -> Nat]
  /\ reader \in [Reader -> [at : {"idle", "lookup", "fetch", "served", "storing"},
                            key : Key, gen : Nat, got : Content]]
  /\ drain \in [Scope -> TaskType] /\ job \in [Job -> TaskType]

\* A read that the cache answers never shows less than the forge had when the
\* key was last invalidated: no read in flight stores a result from before an
\* invalidation, and no deletion task takes back a mark that is newer than it.
CacheIsCurrent ==
  \A k \in Key : ~IsDirty(k) /\ cache[k] # Nothing => promised[k] \subseteq cache[k]
===============================================================================

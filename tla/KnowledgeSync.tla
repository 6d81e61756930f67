---------------------------- MODULE KnowledgeSync ----------------------------
(***************************************************************************)
(* The synchronisation of knowledge articles                               *)
(* (crates/snow_core/src/service/knowledge.rs): full and incremental syncs *)
(* that page through a table which changes meanwhile, reconcile what they  *)
(* did not see, write tags back and move the watermark, under a lease in   *)
(* the sync state row; and reads that persist the article they fetched.    *)
(*                                                                         *)
(* One process runs them: they interleave where they wait for the network, *)
(* and what lies between two waits is one step.  An article is its         *)
(* version; its place in a listing is its stamp, the second it was last    *)
(* updated in and its sys_id.  A page is the set of the articles on it.    *)
(***************************************************************************)
EXTENDS Naturals, FiniteSets, FiniteSetsExt

CONSTANTS Articles, \* sys_ids, in their order
          Syncs,    \* calls of sync_knowledge
          Readers,  \* calls of get_knowledge_article_cached_or_fresh
          PageSize, \* KB_PAGE_SIZE
          MaxEdits, MaxSecond, MaxStarts, \* bounds of the exploration
          None

ASSUME KnowledgeAssumption ==
  /\ IsFiniteSet(Articles) /\ Articles \subseteq Nat \ {0}
  /\ IsFiniteSet(Syncs) /\ None \notin Syncs
  /\ {PageSize, MaxEdits, MaxSecond, MaxStarts} \subseteq Nat \ {0}

VARIABLES remote,   \* the articles in ServiceNow
          second,   \* its clock
          row,      \* the cached records
          wm,       \* the stored watermark
          lock,     \* kb_sync_lock; "by" is whose it is, None after a crash
          sync,     \* progress of each sync
          answer,   \* the answer a reader waits for or has, or None
          edits, starts,
          trusted,  \* history: what the committed syncs relied on held
          disturbed \* history: syncs that ran with another one or over an edit, up to 2

vars == <<remote, second, row, wm, lock, sync, answer, edits, starts, trusted, disturbed>>

Nowhere == <<0, 0>>
Absent == [life |-> "absent", ver |-> 0]
Active(ver) == [life |-> "active", ver |-> ver]
NoLock == [age |-> "none", by |-> None]
IdleSync == [pc |-> "idle", full |-> FALSE, prev |-> Nowhere, part |-> 1, off |-> 0, page |-> {},
             mark |-> Nowhere, seen |-> {}, loaded |-> <<>>, clean |-> TRUE]

\* A sync that holds a lease, and one that may still write articles.
Working(s) == sync[s].pc \in {"query", "page", "tagging", "commit"}
Stamp(a) == <<remote[a].at, a>>
Before(x, y) == x[1] < y[1] \/ (x[1] = y[1] /\ x[2] < y[2])

Stamps == {Nowhere} \cup ((1 .. MaxSecond) \X Articles)
Vers == 1 .. MaxEdits + 1
Fetched == [id : Articles, at : 1 .. MaxSecond, ver : Vers]
Run == [pc : {"idle", "query", "page", "tagging", "commit", "semantic"}, full : BOOLEAN,
        prev : Stamps, part : {1, 2}, off : Nat, page : SUBSET Fetched, mark : Stamps,
        seen : SUBSET Articles, loaded : UNION {[S -> Vers] : S \in SUBSET Articles},
        clean : BOOLEAN]
Copy(a) == [id |-> a, at |-> remote[a].at, ver |-> remote[a].ver]

TypeOK ==
  /\ remote \in [Articles -> [ver : Vers, at : 1 .. MaxSecond, published : BOOLEAN]]
  /\ second \in 1 .. MaxSecond
  /\ row \in [Articles -> [life : {"active", "tombstoned"}, ver : Vers] \cup {Absent}]
  /\ wm \in Stamps
  /\ lock \in [age : {"fresh", "stale"}, by : Syncs \cup {None}] \cup {NoLock}
  /\ sync \in [Syncs -> Run]
  /\ \A s \in Syncs : IsFiniteSet(sync[s].page) /\ Cardinality(sync[s].page) <= PageSize
  /\ answer \in [Readers -> Fetched \cup {None}]
  /\ edits \in 0 .. MaxEdits /\ starts \in 0 .. MaxStarts
  /\ trusted \in BOOLEAN
  /\ disturbed \in 0 .. 2

Init ==
  /\ remote = [a \in Articles |-> [ver |-> 1, at |-> 1, published |-> TRUE]]
  /\ second = 1
  /\ row = [a \in Articles |-> Absent]
  /\ wm = Nowhere
  /\ lock = NoLock
  /\ sync = [s \in Syncs |-> IdleSync]
  /\ answer = [r \in Readers |-> None]
  /\ edits = 0
  /\ starts = 0
  /\ trusted = TRUE
  /\ disturbed = 0

\* From the tag write-back to the commit there is no wait: nothing else runs.
Stretch == \E s \in Syncs : sync[s].pc = "commit"

-----------------------------------------------------------------------------
(* History: a sync is clean while it works alone and no edit disturbs what it
   has listed. *)

DirtySyncs(S) == [s \in Syncs |-> [sync[s] EXCEPT !.clean = @ /\ s \notin S]]
Disturb(S) == disturbed' = Min({2, disturbed + Cardinality({s \in S : sync[s].clean})})

-----------------------------------------------------------------------------
(* sync_knowledge *)

\* acquire_kb_sync_lock, get_kb_sync_state and determine_sync_mode: a full sync is
\* asked for or due, and is the only mode without a watermark.
Begin(s, full) ==
  LET others == {t \in Syncs : Working(t)}
      run == [IdleSync EXCEPT !.pc = "query", !.full = full, !.prev = wm,
                              !.part = IF full THEN 2 ELSE 1, !.clean = (others = {})] IN
  /\ sync[s].pc = "idle"
  /\ starts < MaxStarts
  /\ lock.age # "fresh"
  /\ full \/ wm # Nowhere
  /\ sync' = [DirtySyncs(others) EXCEPT ![s] = run]
  /\ disturbed' = IF others = {} THEN disturbed ELSE 2
  /\ lock' = [age |-> "fresh", by |-> s]
  /\ starts' = starts + 1
  /\ UNCHANGED <<remote, second, row, wm, answer, edits, trusted>>

\* base_knowledge_query and the two incremental queries, in the order of the stamps.
Selected(s, a) ==
  /\ remote[a].published
  /\ \/ sync[s].full
     \/ sync[s].part = 1 /\ remote[a].at = sync[s].prev[1] /\ a > sync[s].prev[2]
     \/ sync[s].part = 2 /\ remote[a].at > sync[s].prev[1]
Listing(s) == {Stamp(a) : a \in {b \in Articles : Selected(s, b)}}
Rank(S, x) == Cardinality({y \in S : ~Before(x, y)})

\* ServiceNow answers the request for the page at an offset.
OnPage(s, a) ==
  /\ Selected(s, a)
  /\ Rank(Listing(s), Stamp(a)) \in sync[s].off + 1 .. sync[s].off + PageSize
Serve(s) ==
  /\ sync[s].pc = "query"
  /\ sync' = [sync EXCEPT ![s].pc = "page",
                          ![s].page = {Copy(a) : a \in {b \in Articles : OnPage(s, b)}}]
  /\ UNCHANGED <<remote, second, row, wm, lock, answer, edits, starts, trusted, disturbed>>

\* persist_record for each article of a page.
Ids(page) == {rec.id : rec \in page}
Version(page, a) == (CHOOSE rec \in page : rec.id = a).ver
Persisted(rows, page) ==
  [a \in Articles |-> IF a \in Ids(page) THEN Active(Version(page, a)) ELSE rows[a]]

\* WatermarkProgress::observe
Observe(mark, page) ==
  LET all == {mark} \cup {<<rec.at, rec.id>> : rec \in page} IN
  CHOOSE m \in all : \A x \in all : ~Before(m, x)

\* A full page, and the next one.
TurnPage(s) ==
  LET page == sync[s].page IN
  /\ sync[s].pc = "page"
  /\ Cardinality(page) = PageSize
  /\ row' = Persisted(row, page)
  /\ sync' = [sync EXCEPT ![s].pc = "query", ![s].page = {}, ![s].off = @ + PageSize,
                          ![s].mark = Observe(@, page), ![s].seen = @ \cup Ids(page)]
  /\ UNCHANGED <<remote, second, wm, lock, answer, edits, starts, trusted, disturbed>>

\* A short page ends the listing of the same second; the newer ones follow.
NextListing(s) ==
  LET page == sync[s].page IN
  /\ sync[s].pc = "page"
  /\ Cardinality(page) < PageSize
  /\ sync[s].part = 1
  /\ row' = Persisted(row, page)
  /\ sync' = [sync EXCEPT ![s].pc = "query", ![s].page = {}, ![s].part = 2, ![s].off = 0,
                          ![s].mark = Observe(@, page), ![s].seen = @ \cup Ids(page)]
  /\ UNCHANGED <<remote, second, wm, lock, answer, edits, starts, trusted, disturbed>>

\* Variant with a fault: what was not listed is removed at once.
ReconciledAtOnce(rows, seen) ==
  [a \in Articles |-> IF a \in seen THEN rows[a] ELSE Absent]

\* reconcile_full_knowledge_sync: what was not listed is tombstoned, and pruned the
\* second time.
Reconciled(rows, seen) ==
  [a \in Articles |->
     CASE a \notin seen /\ rows[a].life = "active" -> [rows[a] EXCEPT !.life = "tombstoned"]
       [] a \notin seen /\ rows[a].life # "active" -> Absent
       [] OTHER -> rows[a]]

\* The short page that ends the last listing; then reconcile, and load the articles
\* whose tags are derived: all active ones, or the changed ones.
LastPage(s) ==
  LET page == sync[s].page
      seen == sync[s].seen \cup Ids(page)
      kept == Persisted(row, page)
      rows == IF sync[s].full THEN Reconciled(kept, seen) ELSE kept
      tag == {a \in Articles : IF sync[s].full THEN rows[a].life = "active" ELSE a \in seen} IN
  /\ sync[s].pc = "page"
  /\ Cardinality(page) < PageSize
  /\ sync[s].part = 2
  /\ row' = rows
  /\ sync' = [sync EXCEPT ![s].pc = "tagging", ![s].page = {}, ![s].off = 0, ![s].seen = {},
                          ![s].mark = Observe(@, page),
                          ![s].loaded = [a \in {b \in tag : rows[b] # Absent} |-> rows[a].ver]]
  /\ UNCHANGED <<remote, second, wm, lock, answer, edits, starts, trusted, disturbed>>

\* refresh_knowledge_auto_tags and persist_knowledge_runtime_articles: articles whose
\* tags changed are written back as they were loaded before the waits.
WriteTags(s, changed) ==
  /\ sync[s].pc = "tagging"
  /\ changed \subseteq DOMAIN sync[s].loaded
  /\ row' = [a \in Articles |-> IF a \in changed THEN Active(sync[s].loaded[a]) ELSE row[a]]
  /\ sync' = [sync EXCEPT ![s].pc = "commit", ![s].loaded = <<>>]
  /\ UNCHANGED <<remote, second, wm, lock, answer, edits, starts, trusted, disturbed>>

\* The watermark a sync commits.
Claim(s) == IF sync[s].mark = Nowhere THEN sync[s].prev ELSE sync[s].mark

\* Variant with a fault: the watermark is the time of the commit.
CommitNow(s) ==
  /\ sync[s].pc = "commit"
  /\ wm' = <<second, Max(Articles)>>
  /\ lock' = NoLock
  /\ sync' = [sync EXCEPT ![s] = [IdleSync EXCEPT !.pc = "semantic"]]
  /\ trusted' = (sync[s].clean /\ (sync[s].full \/ trusted))
  /\ UNCHANGED <<remote, second, row, answer, edits, starts, disturbed>>

\* set_kb_sync_state: the watermark, if anything was listed, and the lease.
Commit(s) ==
  LET run == sync[s] IN
  /\ run.pc = "commit"
  /\ wm' = Claim(s)
  /\ lock' = NoLock
  /\ sync' = [sync EXCEPT ![s] = [IdleSync EXCEPT !.pc = "semantic"]]
  /\ trusted' = (run.clean /\ (run.full \/ trusted))
  /\ UNCHANGED <<remote, second, row, answer, edits, starts, disturbed>>

\* The semantic rebuild has ended; release_kb_sync_lock clears the lease, whoever
\* took it meanwhile.
Release(s) ==
  /\ sync[s].pc = "semantic"
  /\ sync' = [sync EXCEPT ![s] = IdleSync]
  /\ lock' = NoLock
  /\ UNCHANGED <<remote, second, row, wm, answer, edits, starts, trusted, disturbed>>

\* Variant with a fault: an error leaves without the release.
FailLocked(s, done) ==
  /\ Working(s)
  /\ done = {}
  /\ sync' = [sync EXCEPT ![s] = IdleSync]
  /\ UNCHANGED <<remote, second, row, wm, lock, answer, edits, starts, trusted, disturbed>>

\* A request or a store fails, the latter after the first articles of a page or, with the
\* tags written, at the indexes or the sync state.
Fail(s, done) ==
  /\ Working(s)
  /\ \A x \in done : \A y \in sync[s].page \ done : Before(<<x.at, x.id>>, <<y.at, y.id>>)
  /\ row' = Persisted(row, done)
  /\ sync' = [sync EXCEPT ![s] = IdleSync]
  /\ lock' = NoLock
  /\ trusted' = (trusted /\ sync[s].clean)
  /\ UNCHANGED <<remote, second, wm, answer, edits, starts, disturbed>>

\* A store fails while reconcile_full_knowledge_sync goes through what was not listed.
FailReconciling(s, gone) ==
  LET page == sync[s].page IN
  /\ sync[s].pc = "page"
  /\ Cardinality(page) < PageSize
  /\ sync[s].full
  /\ gone \cap (sync[s].seen \cup Ids(page)) = {}
  /\ row' = Reconciled(Persisted(row, page), Articles \ gone)
  /\ sync' = [sync EXCEPT ![s] = IdleSync]
  /\ lock' = NoLock
  /\ trusted' = (trusted /\ sync[s].clean)
  /\ UNCHANGED <<remote, second, wm, answer, edits, starts, disturbed>>

-----------------------------------------------------------------------------
(* get_knowledge_article_cached_or_fresh *)

Ask(r, a) ==
  /\ answer[r] = None
  /\ answer' = [answer EXCEPT ![r] = Copy(a)]
  /\ UNCHANGED <<remote, second, row, wm, lock, sync, edits, starts, trusted, disturbed>>

\* The article is persisted as it was when ServiceNow answered.
PersistAnswer(r) ==
  LET rec == answer[r]
      old == row[rec.id].ver > rec.ver
      over == IF old THEN {s \in Syncs : Working(s)} ELSE {} IN
  /\ rec # None
  /\ row' = [row EXCEPT ![rec.id] = Active(rec.ver)]
  /\ answer' = [answer EXCEPT ![r] = None]
  /\ trusted' = (trusted /\ ~old)
  /\ sync' = DirtySyncs(over)
  /\ Disturb(over)
  /\ UNCHANGED <<remote, second, wm, lock, edits, starts>>

-----------------------------------------------------------------------------
(* The process, and ServiceNow *)

\* The process ends: the lease stays.
Crash ==
  /\ \E s \in Syncs : sync[s].pc # "idle"
  /\ sync' = [s \in Syncs |-> IdleSync]
  /\ answer' = [r \in Readers |-> None]
  /\ lock' = IF lock = NoLock THEN NoLock ELSE [lock EXCEPT !.by = None]
  /\ trusted' = (trusted /\ \A s \in Syncs : Working(s) => sync[s].clean)
  /\ UNCHANGED <<remote, second, row, wm, edits, starts, disturbed>>

\* KB_LOCK_STALE_MS
LockAges ==
  /\ lock.age = "fresh"
  /\ lock' = [lock EXCEPT !.age = "stale"]
  /\ UNCHANGED <<remote, second, row, wm, sync, answer, edits, starts, trusted, disturbed>>

\* An edit disturbs a sync that has begun to list, because it moves the pages; and
\* one that has listed, if the article now has a stamp its watermark claims.
Disturbed(s, a) ==
  \/ sync[s].pc = "page"
  \/ sync[s].pc = "query" /\ (sync[s].off > 0 \/ (sync[s].part = 2 /\ ~sync[s].full))
  \/ sync[s].pc = "tagging" /\ ~Before(Claim(s), <<second, a>>)

Edit(a, published) ==
  LET S == {s \in Syncs : Disturbed(s, a)} IN
  /\ edits < MaxEdits
  /\ remote' = [remote EXCEPT ![a] = [ver |-> @.ver + 1, at |-> second, published |-> published]]
  /\ edits' = edits + 1
  /\ trusted' = (trusted /\ Before(wm, <<second, a>>))
  /\ sync' = DirtySyncs(S)
  /\ Disturb(S)
  /\ UNCHANGED <<second, row, wm, lock, answer, starts>>

Tick ==
  /\ second < MaxSecond
  /\ second' = second + 1
  /\ UNCHANGED <<remote, row, wm, lock, sync, answer, edits, starts, trusted, disturbed>>

-----------------------------------------------------------------------------
SyncStep(s) ==
  \/ ~Stretch /\ (Serve(s) \/ TurnPage(s) \/ NextListing(s) \/ LastPage(s) \/ Release(s))
  \/ ~Stretch /\ \E changed \in SUBSET DOMAIN sync[s].loaded : WriteTags(s, changed)
  \/ Commit(s)

Next ==
  \/ \E s \in Syncs : SyncStep(s)
  \/ \E s \in Syncs, full \in BOOLEAN : ~Stretch /\ Begin(s, full)
  \/ \E s \in Syncs : (Stretch => sync[s].pc = "commit") /\ \E done \in SUBSET sync[s].page : Fail(s, done)
  \/ \E s \in Syncs : ~Stretch /\ \E gone \in SUBSET Articles : FailReconciling(s, gone)
  \/ \E r \in Readers : ~Stretch /\ (PersistAnswer(r) \/ \E a \in Articles : Ask(r, a))
  \/ Crash
  \/ ~Stretch /\ (LockAges \/ Tick \/ \E a \in Articles, published \in BOOLEAN : Edit(a, published))

Spec == Init /\ [][Next]_vars

-----------------------------------------------------------------------------
(* Properties *)

\* What the watermark claims is in the cache: an article that was published at or
\* before it is there, active and as it is in ServiceNow, so that incremental syncs may
\* go on from the watermark.  Failures, crashes, retries, edits between syncs and
\* edits an incremental sync has yet to list do not matter; two syncs at once, an edit
\* under a listing, a second edit in the watermark's own second and a late reader do
\* (sync_knowledge_locked, run_incremental_knowledge_sync).
CaughtUp ==
  /\ trusted
  /\ \A s \in Syncs : Working(s) => sync[s].clean
  => \A a \in Articles :
       remote[a].published /\ ~Before(wm, Stamp(a)) => row[a] = Active(remote[a].ver)

\* A lease belongs to a sync that still works, or to a process that died: no failed
\* sync keeps the next one out (sync_knowledge, release_kb_sync_lock).
LockMeansSync == \A s \in Syncs : lock.by = s => Working(s)

\* One sync that was disturbed never costs the cache a published article it holds the
\* current version of: a listing that skips it only tombstones it
\* (reconcile_full_knowledge_sync).
PublishedSurvives ==
  [][\A a \in Articles :
       /\ remote[a].published
       /\ row[a] # Absent /\ row[a].ver = remote[a].ver
       /\ row'[a] = Absent
       => disturbed = 2]_vars
=============================================================================

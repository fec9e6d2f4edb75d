----------------------------- MODULE NvdRefresh -----------------------------
(***************************************************************************)
(* Keeping the CVE corpus up to date (services/cve_matching: nvd_etl.py,    *)
(* refresh_daemon.py, corpus.py): full and incremental runs page through    *)
(* NVD, batch the records in scope and upsert them, while NVD goes on       *)
(* modifying its CVEs.                                                     *)
(*                                                                         *)
(* Time is in ticks of which Interval and Lookback count a few; what is     *)
(* older than Lookback is just old.  NVD lists CVEs by number; a query by   *)
(* date admits whatever was modified since.  A row is the version of its   *)
(* CVE that was fetched.                                                   *)
(***************************************************************************)
EXTENDS Naturals, FiniteSetsExt, Functions

CONSTANTS
  LastCve,       \* CVEs are numbered from 1
  InScope,       \* those with a CPE of a scoped family
  PageSize,      \* results_per_page
  BatchSize,     \* batch_size
  Interval, Lookback,
  MaxChanges,    \* bound on what NVD has published and modified
  MaxCli,        \* bound on runs from the command line
  MaxDisruptions \* bound on failing runs and stops of the daemon

Cve == 1..LastCve

ASSUME RefreshAssumption ==
  /\ LastCve \in Nat /\ InScope \subseteq Cve
  /\ PageSize \in Nat \ {0} /\ BatchSize \in Nat \ {0}
  /\ Interval \in Nat \ {0} /\ Lookback \in Nat /\ Interval <= Lookback
  /\ MaxChanges \in Nat /\ MaxCli \in Nat /\ MaxDisruptions \in Nat

VARIABLES
  nvd,       \* nvd[c]: the version NVD has, 0 before it is published
  age,       \* age[c]: ticks since its last modification
  row,       \* row[c]: the version in cve_corpus, 0 for none
  daemon,    \* "up" or "down"
  timer,     \* ticks until the scheduler fires
  run,       \* the run under way, or Idle
  covered,   \* ticks since the start of a run all of whose past is in the
             \* corpus (history)
  cli, disruptions,
  disturbed  \* since the daemon last started a run that reaches back to
             \* covered, one failed, was skipped or was overtaken, or the
             \* daemon stopped (history)

refreshVars == <<nvd, age, row, daemon, timer, run, covered, cli, disruptions,
                 disturbed>>

Old == Lookback + 1
Idle == [stage |-> "idle", window |-> {}, start |-> 0, total |-> 0,
         batch |-> {}, queued |-> 0, began |-> 0, sound |-> FALSE, grew |-> FALSE]
Grown(ticks) == IF ticks < Old THEN ticks + 1 ELSE Old

RefreshInit ==
  /\ nvd \in [Cve -> {0, 1}] /\ age = [c \in Cve |-> Old]
  /\ row = [c \in Cve |-> 0]
  /\ daemon = "down" /\ timer = Interval
  /\ run = Idle
  /\ covered = Old
  /\ cli = 0 /\ disruptions = 0 /\ disturbed = TRUE

-----------------------------------------------------------------------------
(* NVD and time.                                                           *)

\* A modified CVE enters the result of every query that is under way.
Modify(c) ==
  /\ SumFunction(nvd) < MaxChanges
  /\ nvd' = [nvd EXCEPT ![c] = @ + 1] /\ age' = [age EXCEPT ![c] = 0]
  /\ run' = IF run = Idle THEN Idle ELSE [run EXCEPT !.window = @ \cup {c}]
  /\ UNCHANGED <<row, daemon, timer, covered, cli, disruptions, disturbed>>

\* Faulty variant: the interval is counted from the end of a run.
TickWhenIdle ==
  /\ daemon = "up" => timer > 0
  /\ timer' = IF daemon = "up" /\ run = Idle THEN timer - 1 ELSE timer
  /\ age' = [c \in Cve |-> Grown(age[c])] /\ covered' = Grown(covered)
  /\ run' = IF run = Idle THEN Idle ELSE [run EXCEPT !.began = Grown(@)]
  /\ UNCHANGED <<nvd, row, daemon, cli, disruptions, disturbed>>

Tick ==
  /\ daemon = "up" => timer > 0
  /\ timer' = IF daemon = "up" THEN timer - 1 ELSE timer
  /\ age' = [c \in Cve |-> Grown(age[c])] /\ covered' = Grown(covered)
  /\ run' = IF run = Idle THEN Idle ELSE [run EXCEPT !.began = Grown(@)]
  /\ UNCHANGED <<nvd, row, daemon, cli, disruptions, disturbed>>

-----------------------------------------------------------------------------
(* Starting a run.                                                         *)

\* lastModStartDate = now - lookback, and no end date.
ModifiedWithin(ticks) == {c \in Cve : nvd[c] > 0 /\ age[c] <= ticks}
Published == {c \in Cve : nvd[c] > 0}

\* sound: when it ends well, nothing before its beginning is missing.
Start(window, sound) ==
  /\ run = Idle
  /\ run' = [stage |-> "page", window |-> window, start |-> 0, total |-> 0,
             batch |-> {}, queued |-> 0, began |-> 0, sound |-> sound, grew |-> FALSE]

\* refresh_daemon --full, --incremental, run by hand (bound: while no daemon
\* is up).
FullEtl ==
  /\ daemon = "down" /\ cli < MaxCli /\ cli' = cli + 1 /\ Start(Published, TRUE)
  /\ UNCHANGED <<nvd, age, row, daemon, timer, covered, disruptions, disturbed>>

Incremental ==
  /\ daemon = "down" /\ cli < MaxCli /\ cli' = cli + 1
  /\ Start(ModifiedWithin(Lookback), covered <= Lookback)
  /\ UNCHANGED <<nvd, age, row, daemon, timer, covered, disruptions, disturbed>>

\* The first run is an interval away.
StartDaemon ==
  /\ daemon = "down" /\ run = Idle /\ daemon' = "up" /\ timer' = Interval
  /\ UNCHANGED <<nvd, age, row, run, covered, cli, disruptions, disturbed>>

\* The scheduler fires every interval and skips a run while one is under way.
Fire ==
  /\ daemon = "up" /\ timer = 0 /\ timer' = Interval
  /\ IF run = Idle
     THEN Start(ModifiedWithin(Lookback), covered <= Lookback)
          /\ disturbed' = (covered > Lookback)
     ELSE disturbed' = TRUE /\ UNCHANGED run
  /\ UNCHANGED <<nvd, age, row, daemon, covered, cli, disruptions>>

-----------------------------------------------------------------------------
(* fetch_nvd and ingest_cves.                                              *)

\* Where NVD lists a CVE, counted from 0.
Place(c, window) == Cardinality({d \in window : d < c})

Versions(page) == {[cve |-> c, version |-> nvd[c]] : c \in page}

\* One page.  total is what the first page said; the records in scope join
\* the batch, which is written when it is full (here, after the page).
FetchPage ==
  LET size == Cardinality(run.window)
      page == {c \in run.window :
                 /\ run.start <= Place(c, run.window)
                 /\ Place(c, run.window) < run.start + PageSize}
      total == IF run.start = 0 THEN size ELSE run.total
      start == run.start + Cardinality(page)
      queued == run.queued + Cardinality(page \cap InScope)
      stage == IF page = {} \/ start >= total THEN "last"
               ELSE IF queued >= BatchSize THEN "flush" ELSE "page" IN
  /\ run # Idle /\ run.stage = "page"
  /\ run' = [run EXCEPT !.stage = stage, !.start = start, !.total = total,
                        !.batch = @ \cup Versions(page \cap InScope),
                        !.queued = queued, !.grew = @ \/ size # total]
  /\ UNCHANGED <<nvd, age, row, daemon, timer, covered, cli, disruptions, disturbed>>

\* Later records of a CVE overwrite earlier ones: ON CONFLICT DO UPDATE.  The
\* later one has the higher version.
Upserted(records) ==
  [c \in Cve |->
     LET versions == {v.version : v \in {w \in records : w.cve = c}} IN
     IF versions = {} THEN row[c] ELSE Max(versions)]

Flush ==
  /\ run # Idle /\ run.stage = "flush"
  /\ row' = Upserted(run.batch)
  /\ run' = [run EXCEPT !.stage = "page", !.batch = {}, !.queued = 0]
  /\ UNCHANGED <<nvd, age, daemon, timer, covered, cli, disruptions, disturbed>>

\* Faulty variant: the last, short batch is not written.
LastFlushForgotten ==
  /\ run # Idle /\ run.stage = "last"
  /\ row' = IF run.queued < BatchSize THEN row ELSE Upserted(run.batch)
  /\ run' = Idle
  /\ covered' = IF run.sound /\ ~run.grew THEN run.began ELSE covered
  /\ disturbed' = (disturbed \/ run.grew)
  /\ UNCHANGED <<nvd, age, daemon, timer, cli, disruptions>>

\* The last flush, and the run is over.
LastFlush ==
  /\ run # Idle /\ run.stage = "last"
  /\ row' = Upserted(run.batch)
  /\ run' = Idle
  /\ covered' = IF run.sound /\ ~run.grew THEN run.began ELSE covered
  /\ disturbed' = (disturbed \/ run.grew)
  /\ UNCHANGED <<nvd, age, daemon, timer, cli, disruptions>>

\* Faulty variant: the exception ends the scheduler.
RunFailsForGood ==
  /\ run # Idle /\ disruptions < MaxDisruptions /\ disruptions' = disruptions + 1
  /\ run' = [run EXCEPT !.stage = "stuck"]
  /\ disturbed' = TRUE
  /\ UNCHANGED <<nvd, age, row, daemon, timer, covered, cli>>

\* NVD or Postgres raises; the rows of the batch written so far stay (any of
\* them: their order is left out).
RunFails ==
  /\ run # Idle /\ disruptions < MaxDisruptions /\ disruptions' = disruptions + 1
  /\ \E written \in SUBSET run.batch :
       /\ run.stage = "page" => written = {}
       /\ row' = Upserted(written)
  /\ run' = Idle /\ disturbed' = TRUE
  /\ UNCHANGED <<nvd, age, daemon, timer, covered, cli>>

StopDaemon ==
  /\ daemon = "up" /\ disruptions < MaxDisruptions /\ disruptions' = disruptions + 1
  /\ daemon' = "down" /\ run' = Idle /\ disturbed' = TRUE
  /\ UNCHANGED <<nvd, age, row, timer, covered, cli>>

Work == FetchPage \/ Flush \/ LastFlush
RefreshNext ==
  \/ \E c \in Cve : Modify(c)
  \/ Tick \/ FullEtl \/ Incremental \/ StartDaemon \/ StopDaemon \/ Fire
  \/ Work \/ RunFails

RefreshSpec == RefreshInit /\ [][RefreshNext]_refreshVars

\* Time passes, the scheduler fires and a run goes on.
RefreshFairSpec ==
  /\ RefreshSpec /\ WF_refreshVars(Tick) /\ WF_refreshVars(Fire)
  /\ WF_refreshVars(Work)

-----------------------------------------------------------------------------
(* Properties.                                                             *)

\* Type correctness; a row never holds what NVD never said, and a run counts
\* no more than it was given.
RefreshTypeOK ==
  /\ nvd \in [Cve -> Nat] /\ age \in [Cve -> 0..Old]
  /\ row \in [Cve -> Nat] /\ \A c \in Cve : row[c] <= nvd[c]
  /\ \A c \in Cve : row[c] > 0 => c \in InScope
  /\ daemon \in {"up", "down"} /\ timer \in 0..Interval
  /\ run # Idle =>
       /\ run.stage \in {"page", "flush", "last"}
       /\ run.window \subseteq Published
       /\ run.start <= Cardinality(run.window) /\ run.began \in 0..Old
       /\ run.batch \subseteq [cve : InScope, version : Nat] /\ run.queued \in Nat
  /\ covered \in 0..Old /\ cli \in Nat /\ disruptions \in Nat
  /\ disturbed \in BOOLEAN

\* Whatever NVD last modified before the covered time is in the corpus in its
\* latest version, however pages, batches and modifications fall together
\* (fetch_nvd, ingest_cves, upsert).
CorpusCurrent ==
  \A c \in InScope : age[c] > covered => row[c] = nvd[c]

\* "slightly wider than the interval so nothing is missed at the boundary":
\* after a run of the daemon that reached back to all the corpus lacked, the
\* next one does too, unless a run failed, was skipped or was overtaken by
\* changes, or the daemon stopped.
WindowsMeet ==
  [][run = Idle /\ run' # Idle /\ ~disturbed => run'.sound]_refreshVars

\* "never let a failed refresh kill the scheduler thread": while the daemon is
\* up there is always another run, and each one ends.
RefreshGoesOn ==
  /\ []<>(daemon = "down" \/ run # Idle)
  /\ []<>(run = Idle)
=============================================================================

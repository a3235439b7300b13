------------------------------ MODULE ThreeMf ------------------------------
(***************************************************************************)
(* The 3MF stage of a model: a job process that reads meta.json, asks      *)
(* MakerWorld through the browser for a signed link of every instance that *)
(* has no file, and downloads it (makerworld_pipeline/archive.py), beside  *)
(* the daily quota (three_mf_quota.py), the pacing of authorizations under *)
(* the browser's lock (three_mf_pacing.py), the account's gate, and the    *)
(* source refresh, which rewrites the same meta.json (remote_refresh.py).  *)
(* All models here belong to one account, so to one lock and one gate.     *)
(***************************************************************************)
EXTENDS Naturals, FiniteSets

CONSTANTS
    Printed,    \* the models
    Plate,      \* the instances each model has, all on one account
    DailyLimit, \* three_mf_daily_limit of the account
    LastDay,    \* bound on the days that pass
    Kills,      \* bound on the job processes that die
    Refreshes   \* bound on the source refreshes

ASSUME ThreeMfAssumption ==
    /\ IsFiniteSet(Printed) /\ IsFiniteSet(Plate) /\ "free" \notin Printed
    /\ DailyLimit \in Nat \ {0} /\ LastDay \in Nat \ {0} /\ Kills \in Nat /\ Refreshes \in Nat

VARIABLES
    meta,     \* meta.json of a model: the instances with a saved link, the version of the rest
    saved,    \* the instances whose 3MF file is in the model's folder
    job,      \* the job process of a model
    rewrite,  \* the source refresh of a model: its step and what it read
    used,     \* authorizations reserved on this day
    day,
    doorway,  \* three_mf_gate of the account
    cooling,  \* a cooldown after HTTP 429 is in force
    browser,  \* the model whose job holds the browser's lock, or "free"
    lives,    \* bounds left: kills and refreshes
    held,     \* history: instances with a link on disk that nobody refused or threw away
    refused   \* history: MakerWorld asked for a verification and the gate was not opened since

threeMfVars == <<meta, saved, job, rewrite, used, day, doorway, cooling, browser, lives, held, refused>>

Answers == {"link", "verification", "limit", "rate", "missing", "broken"}
\* _should_pause_three_mf_fetch: why the job asks for nothing more after an answer.
PauseAfter(answer) ==
    CASE answer \in {"verification", "limit"} -> answer
      [] answer \in {"rate", "broken"} -> "error"
      [] OTHER -> "no"
\* The state a closed gate gives to the instances that are passed over.
PauseAtGate ==
    CASE doorway = "open" -> "no"
      [] doorway = "daily_limit" -> "limit"
      [] OTHER -> "verification"
\* Answers after which the account may send nothing.
Closes == {"verification", "limit"}

Nothing == [link |-> {}, page |-> 0]
NoJob == [at |-> "idle", mem |-> Nothing, todo |-> {}, now |-> "none",
             again |-> FALSE, paused |-> "no", answer |-> "none", got |-> FALSE]

NoRefresh == [at |-> "idle", old |-> Nothing]

ThreeMfInit ==
    /\ meta = [m \in Printed |-> Nothing]
    /\ saved = [m \in Printed |-> {}]
    /\ job = [m \in Printed |-> NoJob]
    /\ rewrite = [m \in Printed |-> NoRefresh]
    /\ used = 0 /\ day = 1 /\ doorway = "open" /\ cooling = FALSE /\ browser = "free"
    /\ lives = [kills |-> Kills, refreshes |-> Refreshes]
    /\ held = {} /\ refused = FALSE

In(m, step) == job[m].at = step
Move(m, step) == job' = [job EXCEPT ![m].at = step]
\* save_meta: the whole document the job holds in memory, in one replace.
Save(m, mem) == meta' = [meta EXCEPT ![m] = mem]

----------------------------------------------------------------------------
(* _retry_archived_three_mf                                                *)

\* A task of the archive queue for some of the instances without a file;
\* with the gate closed it only records why nothing is downloaded.
Retry(m) ==
    /\ In(m, "idle")
    /\ \E targets \in SUBSET (Plate \ saved[m]) \ {{}} :
          job' = [job EXCEPT ![m] = [NoJob EXCEPT !.at = "next", !.mem = meta[m],
                                                  !.todo = targets, !.paused = PauseAtGate]]
    /\ UNCHANGED <<meta, saved, rewrite, used, day, doorway, cooling, browser, lives, held, refused>>

\* The top of the loop: an instance the pause or a file on disk settles is passed over.
PassOver(m) ==
    /\ In(m, "next")
    /\ \E i \in job[m].todo :
          /\ job[m].paused # "no" \/ i \in saved[m]
          /\ job' = [job EXCEPT ![m].todo = @ \ {i}]
    /\ UNCHANGED <<meta, saved, rewrite, used, day, doorway, cooling, browser, lives, held, refused>>

\* A saved link is tried first.
StartsWith(m, i) == IF i \in job[m].mem.link THEN "transfer" ELSE "reserve"

TakeUp(m) ==
    /\ In(m, "next") /\ job[m].paused = "no"
    /\ \E i \in job[m].todo \ saved[m] :
          job' = [job EXCEPT ![m].at = StartsWith(m, i), ![m].now = i,
                             ![m].todo = @ \ {i}, ![m].again = FALSE]
    /\ UNCHANGED <<meta, saved, rewrite, used, day, doorway, cooling, browser, lives, held, refused>>

ReserveUncounted(m) ==                                                     \* mutant
    /\ In(m, "reserve")
    /\ used' = used + 1 /\ Move(m, "queue")
    /\ UNCHANGED <<meta, saved, rewrite, day, doorway, cooling, browser, lives, held, refused>>

\* reserve_three_mf_download_slot, under its file lock: a refusal pauses the rest.
Reserve(m) ==
    /\ In(m, "reserve")
    /\ \/ /\ used < DailyLimit /\ used' = used + 1
          /\ Move(m, "queue") /\ UNCHANGED meta
       \/ /\ used >= DailyLimit /\ UNCHANGED used
          /\ job' = [job EXCEPT ![m].at = "next", ![m].paused = "limit"]
          /\ Save(m, job[m].mem)
    /\ UNCHANGED <<saved, rewrite, day, doorway, cooling, browser, lives, held, refused>>

\* _profile_operation takes the browser's lock, __enter__ looks at the gate and
\* the cooldown; without a request the lock is let go at once.
Enter(m) ==
    /\ In(m, "queue") /\ browser = "free"
    /\ \/ /\ doorway = "open" /\ ~cooling
          /\ browser' = m /\ Move(m, "wait") /\ UNCHANGED meta
       \/ /\ doorway # "open" \/ cooling
          /\ job' = [job EXCEPT ![m].at = "next",
                                ![m].paused = IF doorway = "open" THEN "error" ELSE PauseAtGate]
          /\ Save(m, job[m].mem) /\ UNCHANGED browser
    /\ UNCHANGED <<saved, rewrite, used, day, doorway, cooling, lives, held, refused>>

\* After the interval __enter__ looks at the gate once more.
Recheck(m) ==
    /\ In(m, "wait")
    /\ \/ doorway = "open" /\ Move(m, "send") /\ UNCHANGED <<meta, browser>>
       \/ /\ doorway # "open" /\ browser' = "free"
          /\ job' = [job EXCEPT ![m].at = "next", ![m].paused = PauseAtGate]
          /\ Save(m, job[m].mem)
    /\ UNCHANGED <<saved, rewrite, used, day, doorway, cooling, lives, held, refused>>

\* fetch_instance_3mf makes one of the answers of whatever the browser returns.
Answered(m, answer) == job' = [job EXCEPT ![m].at = "leave", ![m].answer = answer]
\* The click in the browser and its answer.
Ask(m) ==
    /\ In(m, "send")
    /\ \E answer \in Answers :
          /\ Answered(m, answer)
          /\ refused' = (refused \/ answer \in Closes)
    /\ UNCHANGED <<meta, saved, rewrite, used, day, doorway, cooling, browser, lives, held>>

GateOnCaptcha(answer) == IF answer = "verification" THEN "verification_required" ELSE doorway  \* mutant
GateAfter(answer) ==
    CASE answer = "verification" -> "verification_required"
      [] answer = "limit" -> "daily_limit"
      [] OTHER -> doorway

\* __exit__: the cooldown and the gate, before the browser's lock is let go.
\* The link goes into the document in memory; without one the round ends and
\* the document is saved.
Leave(m) ==
    /\ In(m, "leave")
    /\ doorway' = GateAfter(job[m].answer)
    /\ cooling' = (cooling \/ job[m].answer = "rate")
    /\ browser' = "free"
    /\ \/ /\ job[m].answer = "link"
          /\ job' = [job EXCEPT ![m].at = "keep", ![m].mem.link = @ \cup {job[m].now}, ![m].answer = "none",
                                ![m].again = TRUE, ![m].got = TRUE]
          /\ UNCHANGED meta
       \/ /\ job[m].answer # "link"
          /\ job' = [job EXCEPT ![m].at = "next", ![m].paused = PauseAfter(job[m].answer), ![m].answer = "none"]
          /\ Save(m, job[m].mem)
    /\ UNCHANGED <<saved, rewrite, used, day, lives, held, refused>>

KeepLater(m) ==                                                          \* mutant
    /\ In(m, "keep")
    /\ Move(m, "transfer") /\ held' = held \cup {<<m, job[m].now>>}
    /\ UNCHANGED <<meta, saved, rewrite, used, day, doorway, cooling, browser, lives, refused>>

\* The link is saved before the transfer begins.
Keep(m) ==
    /\ In(m, "keep")
    /\ Save(m, job[m].mem) /\ Move(m, "transfer")
    /\ held' = held \cup {<<m, job[m].now>>}
    /\ UNCHANGED <<saved, rewrite, used, day, doorway, cooling, browser, lives, refused>>

\* _download_three_mf_file writes a .part and renames it.
Transferred(m) ==
    /\ In(m, "transfer")
    /\ saved' = [saved EXCEPT ![m] = @ \cup {job[m].now}]
    /\ Save(m, job[m].mem) /\ Move(m, "next")
    /\ UNCHANGED <<rewrite, used, day, doorway, cooling, browser, lives, held, refused>>

\* What a failed transfer leaves of the links: 401, 403, 404 and 410 clear the
\* link, a timeout, 429 and 5xx keep it.
LinksAfter(links, i, rejected) == IF rejected THEN links \ {i} ELSE links

\* A link the server rejects is asked for again once, unless it is of this round.
TransferFails(m) ==
    /\ In(m, "transfer")
    /\ \E rejected \in BOOLEAN :
          LET mem == [job[m].mem EXCEPT !.link = LinksAfter(@, job[m].now, rejected)]
          IN  /\ Save(m, mem)
              /\ job' = [job EXCEPT ![m].mem = mem,
                            ![m].at = IF rejected /\ ~job[m].again THEN "reserve" ELSE "next"]
              /\ held' = IF rejected THEN held \ {<<m, job[m].now>>} ELSE held
    /\ UNCHANGED <<saved, rewrite, used, day, doorway, cooling, browser, lives, refused>>

\* The job ends, and the manager writes what it found to the gate: a link opens
\* it, whatever else failed; a limit or a verification alone closes it (a single
\* verification behind an open gate may be left aside); a run that leaves nothing
\* missing opens it, even if it asked for nothing.
GateAfterRun(m) ==
    IF job[m].got /\ job[m].paused \in {"verification", "limit"} THEN {"open"}
    ELSE IF job[m].paused = "limit" THEN {"daily_limit"}
    ELSE IF job[m].paused = "verification" THEN {doorway, "verification_required"}
    ELSE IF saved[m] = Plate THEN {"open"}
    ELSE {doorway}

RunEnds(m) ==
    /\ In(m, "next") /\ job[m].todo = {}
    /\ Save(m, job[m].mem)
    /\ doorway' \in GateAfterRun(m)
    /\ refused' = (refused /\ ~(doorway # "open" /\ doorway' = "open"))
    /\ job' = [job EXCEPT ![m] = NoJob]
    /\ UNCHANGED <<saved, rewrite, used, day, cooling, browser, lives, held>>

\* The process dies: its memory is gone and its locks are free.  An answer it
\* had not yet acted on is lost with it.
Die(m) ==
    /\ ~In(m, "idle") /\ lives.kills > 0
    /\ lives' = [lives EXCEPT !.kills = @ - 1]
    /\ job' = [job EXCEPT ![m] = NoJob]
    /\ browser' = IF browser = m THEN "free" ELSE browser
    /\ refused' = (refused /\ ~(In(m, "leave") /\ doorway = "open"))
    /\ UNCHANGED <<meta, saved, rewrite, used, day, doorway, cooling, held>>

----------------------------------------------------------------------------
(* What happens around the jobs                                            *)

\* "Verified" in the web interface.
Confirm ==
    /\ doorway = "verification_required" /\ doorway' = "open" /\ refused' = FALSE
    /\ UNCHANGED <<meta, saved, job, rewrite, used, day, cooling, browser, lives, held>>

Cooled ==
    /\ cooling /\ cooling' = FALSE
    /\ UNCHANGED <<meta, saved, job, rewrite, used, day, doorway, browser, lives, held, refused>>

\* Midnight: the counter of another day does not count, nor does its daily_limit.
Midnight ==
    /\ day < LastDay /\ day' = day + 1 /\ used' = 0
    /\ doorway' = IF doorway = "daily_limit" THEN "open" ELSE doorway
    /\ refused' = (refused /\ doorway # "daily_limit")
    /\ UNCHANGED <<meta, saved, job, rewrite, cooling, browser, lives, held>>

\* _refresh_single_model reads the document, has the model fetched anew with
\* skip_three_mf_fetch, and merges; what has no file loses its link.
RefreshReads(m) ==
    /\ rewrite[m].at = "idle" /\ lives.refreshes > 0
    /\ lives' = [lives EXCEPT !.refreshes = @ - 1]
    /\ rewrite' = [rewrite EXCEPT ![m] = [at |-> "read", old |-> meta[m]]]
    /\ UNCHANGED <<meta, saved, job, used, day, doorway, cooling, browser, held, refused>>

Refetched(m, was) == [link |-> was.link \cap saved[m], page |-> was.page + 1]
RefreshWrites(m) ==
    /\ rewrite[m].at = "read"
    /\ Save(m, Refetched(m, rewrite[m].old))
    /\ rewrite' = [rewrite EXCEPT ![m] = NoRefresh]
    /\ held' = {h \in held : h[1] # m}
    /\ UNCHANGED <<saved, job, used, day, doorway, cooling, browser, lives, refused>>

\* A refresh that fails writes back what it had read.
RefreshFails(m) ==
    /\ rewrite[m].at = "read"
    /\ Save(m, rewrite[m].old)
    /\ rewrite' = [rewrite EXCEPT ![m] = NoRefresh]
    /\ held' = {h \in held : h[1] # m \/ h[2] \in rewrite[m].old.link}
    /\ UNCHANGED <<saved, job, used, day, doorway, cooling, browser, lives, refused>>

JobStep(m) ==
    \/ PassOver(m) \/ TakeUp(m) \/ Reserve(m) \/ Enter(m) \/ Recheck(m) \/ Ask(m) \/ Leave(m)
    \/ Keep(m) \/ Transferred(m) \/ TransferFails(m) \/ RunEnds(m)

ThreeMfNext ==
    \/ \E m \in Printed : Retry(m) \/ JobStep(m) \/ Die(m)
                          \/ RefreshReads(m) \/ RefreshWrites(m) \/ RefreshFails(m)
    \/ Confirm \/ Cooled \/ Midnight

ThreeMfSpec == ThreeMfInit /\ [][ThreeMfNext]_threeMfVars

----------------------------------------------------------------------------
(* Properties                                                              *)

Document == [link : SUBSET Plate, page : 0 .. Refreshes]

ThreeMfTypeOK ==
    /\ meta \in [Printed -> Document]
    /\ saved \in [Printed -> SUBSET Plate]
    /\ \A m \in Printed :
          /\ job[m].mem \in Document /\ job[m].todo \subseteq Plate
          /\ job[m].now \in Plate \cup {"none"} /\ job[m].answer \in Answers \cup {"none"}
          /\ rewrite[m].old \in Document
          /\ job[m].at \in {"wait", "send", "leave"} <=> browser = m
    /\ used \in 0 .. DailyLimit /\ day \in 1 .. LastDay
    /\ doorway \in {"open", "verification_required", "daily_limit"}
    /\ browser \in Printed \cup {"free"}

\* docs/modules/archive.md:60 and CHANGELOG.md:59: a link that was saved is used
\* until the server rejects it, over failed transfers and deaths of the job; no
\* authorization is spent on an instance that has one.
LinkReused ==
    [][\A m \in Printed :
          In(m, "reserve") /\ used' = used + 1 => <<m, job[m].now>> \notin held]_threeMfVars

\* CHANGELOG.md:104: once MakerWorld asked for a verification or named the daily
\* limit, no other job that waits in the queue of the browser sends a request,
\* until the gate is opened.
RefusalHolds ==
    [][\A m \in Printed : In(m, "send") /\ job'[m].at = "leave" => ~refused]_threeMfVars

\* docs/modules/archive.md:59: a 3MF run keeps everything in meta.json that is
\* not its own, whatever was written since it read the document.
KeepsTheRest ==
    [][\A m \in Printed : rewrite[m] = rewrite'[m] => meta'[m].page = meta[m].page]_threeMfVars

=============================================================================

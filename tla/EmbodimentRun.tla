---------------------------- MODULE EmbodimentRun ----------------------------
(***************************************************************************)
(* A run directory of the embodiment: an event log and a snapshot that     *)
(* commands of separate processes write, with no lock between them.  A     *)
(* seed command creates the log, appends one line per body and then saves  *)
(* the snapshot; an advance command reads the snapshot, which it never     *)
(* writes, and appends the history of one body to the log.  A process may  *)
(* die between two writes or in the middle of one.                         *)
(*                                                                         *)
(* What is sampled and how a body moves is data: a body is the hours it    *)
(* has lived.  Lines of two processes do not mix within one write.         *)
(***************************************************************************)
EXTENDS Integers, SequencesExt

CONSTANTS
    Process,
    WorldSeed,
    Version,      \* versions of the body dynamics that may be installed
    CohortSize,   \* cohorts a seed command may ask for
    Day,          \* hours in a day
    Night,        \* hours of sleep an advance may ask for
    Days,         \* whole days an advance may ask for
    MaxOffset,    \* the first offset that logical_sim_time cannot render
    MaxLines,     \* bound: no advance begins on a longer log
    None

ASSUME CohortAssumption == CohortSize \subseteq Nat \ {0}
ASSUME HoursAssumption ==
    /\ Day \in Nat \ {0} /\ Night \subseteq 0..Day /\ Days \subseteq Nat
    /\ MaxOffset \in Nat \ {0} /\ MaxLines \in Nat

VARIABLES
    log,       \* events.jsonl: None before it is created
    ended,     \* whether its last line has its newline
    snapshot,  \* snapshot.yaml: None, Partial or what it was saved with
    job,       \* the command each process is in
    met        \* history: the characters whose advances were open together

vars == <<log, ended, snapshot, job, met>>

Character == UNION {1..n : n \in CohortSize}

RunMetadata == [seed : WorldSeed, version : Version, count : CohortSize]

Partial == [count |-> 0]

\* Lines no JSON parser reads: the torn end of the file, and a line without a
\* newline, torn or whole, that a later append ran on from.
Torn == [event |-> "torn"]
Garbled == [event |-> "garbled"]

\* The lines of a log, and the commands a process may be in.
Line ==
    [seq : Nat, event : {"run.started", "run.extended"}, meta : RunMetadata]
    \cup [seq : Nat, event : {"capacity.sampled"}, who : Nat]
    \cup [seq : Nat, event : {"cohort.correlation_report"}]
    \cup [seq : Nat, event : {"body.advanced"}, who : Character, version : Version,
          before : Nat, after : Nat]
    \cup {Torn, Garbled}

Command ==
    [doing : {"create", "seed", "save"}, meta : RunMetadata, seq : Nat]
    \cup [doing : {"reopen", "extend", "advance"}, meta : RunMetadata, seq : Nat,
          who : Character, version : Version, hours : Nat, segments : Seq(Nat) \ {<<>>}]

\* None stands for a file that is not there and for a process in no command.
ASSUME NoneAssumption ==
    None \notin Seq(Line) \cup Command \cup RunMetadata \cup {Partial}

Readable == \A i \in DOMAIN log : log[i] \notin {Torn, Garbled}

\* A handle opened for appending writes at the end of the file, whatever ends it.
Appended(line) ==
    IF ended THEN Append(log, line) ELSE Append(Front(log), Garbled)

Writes(line) == log' = Appended(line) /\ ended' = TRUE

\* A write that stops short: before its newline the line is whole.
BreaksOff(line) ==
    /\ log' \in IF ended THEN {Append(log, line), Append(log, Torn)}
                         ELSE {Append(Front(log), Torn)}
    /\ ended' = FALSE

Closes(p) == job' = [job EXCEPT ![p] = None]

----------------------------------------------------------------------------
\* The seed command.

\* What a seed appends, the sequence number of a line being its place less one.
Script(m) ==
    <<[seq |-> 0, event |-> "run.started", meta |-> m]>>
    \o [c \in 1..m.count |-> [seq |-> c, event |-> "capacity.sampled", who |-> c]]
    \o <<[seq |-> m.count + 1, event |-> "cohort.correlation_report"]>>

SeedCohort(p, m) ==
    /\ job[p] = None
    /\ log = None /\ snapshot = None
    /\ job' = [job EXCEPT ![p] = [doing |-> "create", meta |-> m, seq |-> 0]]
    /\ UNCHANGED <<log, ended, snapshot, met>>

\* Variant: the file is opened for writing, whether it exists or not.
LogMayBeReplaced == TRUE

LogMayBeCreated == log = None

CreateLog(p) ==
    /\ job[p] # None /\ job[p].doing = "create"
    /\ \/ /\ LogMayBeCreated
          /\ log' = <<>> /\ ended' = TRUE
          /\ job' = [job EXCEPT ![p].doing = "seed"]
       \/ ~LogMayBeCreated /\ Closes(p) /\ UNCHANGED <<log, ended>>
    /\ UNCHANGED <<snapshot, met>>

LogIsComplete(p) == job[p].seq = Len(Script(job[p].meta))

Sampled(p) == Script(job[p].meta)[job[p].seq + 1]

SeedCharacter(p) ==
    /\ job[p] # None /\ job[p].doing = "seed"
    /\ ~LogIsComplete(p)
    /\ Writes(Sampled(p))
    /\ job' = [job EXCEPT ![p].seq = @ + 1]
    /\ UNCHANGED <<snapshot, met>>

CreateSnapshot(p) ==
    /\ job[p] # None /\ job[p].doing = "seed"
    /\ LogIsComplete(p)
    /\ snapshot = None
    /\ snapshot' = Partial
    /\ job' = [job EXCEPT ![p].doing = "save"]
    /\ UNCHANGED <<log, ended, met>>

WriteSnapshot(p) ==
    /\ job[p] # None /\ job[p].doing = "save"
    /\ snapshot' = job[p].meta
    /\ Closes(p)
    /\ UNCHANGED <<log, ended, met>>

----------------------------------------------------------------------------
\* The advance command.

\* One simulated day, awake first; an interval of no hours is left out.
DaySegments(night) ==
    IF night \in {0, Day} THEN <<Day>> ELSE <<Day - night, night>>

Segments(night, days) ==
    LET day == DaySegments(night)
    IN  [i \in 1..(days * Len(day)) |-> day[((i - 1) % Len(day)) + 1]]

\* Variant: only the end of the log is looked at.
BodyAdvancedLast(c) ==
    log # <<>> /\ Last(log).event = "body.advanced" /\ Last(log).who = c

BodyHasAdvanced(c) ==
    \E i \in DOMAIN log : log[i].event = "body.advanced" /\ log[i].who = c

Advancing == {p \in Process : job[p] # None
                              /\ job[p].doing \in {"reopen", "extend", "advance"}}

\* A command for no days writes nothing.
AdvanceClock(p, c, v, segments) ==
    /\ job[p] = None
    /\ snapshot \in RunMetadata
    /\ snapshot.version = v
    /\ c <= snapshot.count
    /\ segments # <<>>
    /\ Readable /\ ~BodyHasAdvanced(c)
    /\ Len(log) <= MaxLines
    /\ job' = [job EXCEPT ![p] = [doing |-> "reopen", meta |-> snapshot, seq |-> 0,
                                  who |-> c, version |-> v,
                                  hours |-> 0, segments |-> segments]]
    /\ met' = met \cup {{c, job[q].who} : q \in Advancing}
    /\ UNCHANGED <<log, ended, snapshot>>

SameRun(m) ==
    log # <<>> /\ log[1].event = "run.started" /\ log[1].meta = m

NextNumber == Last(log).seq + 1

ReadOpening(p) ==
    /\ job[p] # None /\ job[p].doing = "reopen"
    /\ \/ /\ Readable /\ SameRun(job[p].meta)
          /\ job' = [job EXCEPT ![p].doing = "extend", ![p].seq = NextNumber]
       \/ ~(Readable /\ SameRun(job[p].meta)) /\ Closes(p)
    /\ UNCHANGED <<log, ended, snapshot, met>>

Extension(p) == [seq |-> job[p].seq, event |-> "run.extended", meta |-> job[p].meta]

ExtendLog(p) ==
    /\ job[p] # None /\ job[p].doing = "extend"
    /\ Writes(Extension(p))
    /\ job' = [job EXCEPT ![p].doing = "advance", ![p].seq = @ + 1]
    /\ UNCHANGED <<snapshot, met>>

After(p) == job[p].hours + Head(job[p].segments)

Moved(p) ==
    [seq |-> job[p].seq, event |-> "body.advanced", who |-> job[p].who,
     version |-> job[p].version, before |-> job[p].hours, after |-> After(p)]

\* An offset that cannot be rendered ends the command before its line is made.
Advance(p) ==
    /\ job[p] # None /\ job[p].doing = "advance"
    /\ \/ After(p) >= MaxOffset /\ Closes(p) /\ UNCHANGED <<log, ended>>
       \/ /\ After(p) < MaxOffset /\ Writes(Moved(p))
          /\ \/ Len(job[p].segments) = 1 /\ Closes(p)
             \/ /\ Len(job[p].segments) > 1
                /\ job' = [job EXCEPT ![p].seq = @ + 1, ![p].hours = After(p),
                                      ![p].segments = Tail(@)]
    /\ UNCHANGED <<snapshot, met>>

----------------------------------------------------------------------------
\* A process dies, between two writes or within one of a line of the log.
Die(p) ==
    /\ job[p] # None
    /\ Closes(p)
    /\ UNCHANGED <<log, ended, snapshot, met>>

DieWriting(p) ==
    /\ job[p] # None
    /\ \/ job[p].doing = "seed" /\ ~LogIsComplete(p) /\ BreaksOff(Sampled(p))
       \/ job[p].doing = "extend" /\ BreaksOff(Extension(p))
       \/ job[p].doing = "advance" /\ After(p) < MaxOffset /\ BreaksOff(Moved(p))
    /\ Closes(p)
    /\ UNCHANGED <<snapshot, met>>

Init ==
    /\ log = None /\ ended = TRUE /\ snapshot = None
    /\ job = [p \in Process |-> None]
    /\ met = {}

Next == \E p \in Process :
    \/ \E m \in RunMetadata : SeedCohort(p, m)
    \/ CreateLog(p) \/ SeedCharacter(p)
    \/ CreateSnapshot(p) \/ WriteSnapshot(p)
    \/ \E c \in Character, v \in Version, night \in Night, days \in Days :
          AdvanceClock(p, c, v, Segments(night, days))
    \/ ReadOpening(p) \/ ExtendLog(p) \/ Advance(p)
    \/ Die(p) \/ DieWriting(p)

Spec == Init /\ [][Next]_vars

----------------------------------------------------------------------------
\* The history of a body: the lines of the log that tell its moves.
History(c) == {i \in DOMAIN log : log[i].event = "body.advanced" /\ log[i].who = c}

\* The hours a body has lived after the moves that lines before the i-th tell.
LivedBefore(c, i) ==
    LET earlier == {h \in History(c) : h < i}
    IN  IF earlier = {} THEN 0 ELSE log[Max(earlier)].after

\* A body is advanced from where it was, from the seeded body on, as long as the
\* log reads or nobody met the body; and a move that is lost to another body's
\* advance shows as a gap in the numbers of its lines.
IsOneHistory(c) ==
    /\ (Readable \/ \A d \in Character : {c, d} \notin met)
       => \A i \in History(c) : log[i].before = LivedBefore(c, i)
    /\ \A h, i \in History(c) : h < i =>
          /\ log[h].seq < log[i].seq
          /\ log[i].seq = log[h].seq + 1 => log[i].before = log[h].after

RunOnBefore(i) == \E h \in DOMAIN log : h < i /\ log[h] = Garbled

\* The death of a process costs the run at most two records: its own last one,
\* if it died just before the newline, and the opening of the phase that ran on
\* from it.  The numbers tell which: they count the lines up to there and are
\* one ahead of them after.  That phase is the last: nothing but moves of its
\* one body follows.
LossIsBounded ==
    /\ \A i \in DOMAIN log : log[i] \notin {Torn, Garbled} =>
          log[i].seq = IF RunOnBefore(i) THEN i ELSE i - 1
    /\ \A h, i \in DOMAIN log : log[h] = Garbled /\ h < i =>
          \/ log[i] = Torn /\ i = Len(log)
          \/ /\ log[i].event = "body.advanced"
             /\ \A j \in DOMAIN log : h < j /\ log[j] # Torn => log[j].who = log[i].who

\* No command forks the history of a body, however many die half way, with or
\* without the newline of their last line.  Nothing guards two advances of one
\* body that are open together: of such a body nothing is said.  Where no two
\* advances were, of any bodies, what deaths cost the log is bounded.
HistoryIsOne ==
    log # None =>
    /\ \A c \in Character : {c} \notin met => IsOneHistory(c)
    /\ met = {} => LossIsBounded

\* A snapshot that can be read attests the run its log opens with: every body
\* of the cohort was sampled there before, and what came after is of this run,
\* its bodies and its dynamics.  Without it the log has no later phase.
SnapshotIsBacked ==
    LET seeded == IF snapshot \in RunMetadata THEN Script(snapshot) ELSE <<>>
        later  == {i \in DOMAIN log : i > Len(seeded)}
    IN  log # None =>
        /\ IsPrefix(seeded, log)
        /\ \A i \in later :
              /\ log[i].event = "run.extended" => log[i].meta = snapshot
              /\ log[i].event = "body.advanced" =>
                    log[i].version = snapshot.version /\ log[i].who <= snapshot.count
              /\ seeded = <<>> => log[i].event \notin {"run.extended", "body.advanced"}

================================================================================

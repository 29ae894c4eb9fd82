-------------------------- MODULE EmbodimentRunProofs --------------------------
(***************************************************************************)
(* Theorems of EmbodimentRun, for every set of processes, runs and cohorts *)
(* and every length of a day: the history a log tells of a body is one,    *)
(* the death of a process costs it no more than two records, and a         *)
(* snapshot is backed by the log beside it.                                *)
(***************************************************************************)
EXTENDS EmbodimentRun, SequenceTheorems, WellFoundedInduction, TLAPS

--------------------------------------------------------------------------------
(* The invariant.                                                          *)

Typed ==
    /\ log \in Seq(Line) \cup {None}
    /\ ended \in BOOLEAN /\ (~ended => log \in Seq(Line) \ {<<>>})
    /\ snapshot \in RunMetadata \cup {Partial, None}
    /\ job \in [Process -> Command \cup {None}]

Seeding(p) == job[p] # None /\ job[p].doing \in {"seed", "save"}

\* The log is the first beginning of the script of run m, of n lines.
Follows(m, n) ==
    /\ n <= Len(Script(m)) /\ Len(log) >= n
    /\ \A i \in 1..n : log[i] = Script(m)[i]

\* Nothing is there before the log is, and a seed begins with its first line.
Unseeded ==
    /\ log = None =>
          /\ snapshot = None
          /\ \A p \in Process : job[p] # None => job[p].doing = "create"
    /\ \A p \in Process : job[p] # None /\ job[p].doing = "create" => job[p].seq = 0

\* One process seeds, and it alone writes.
SeedOwns == \A p \in Process : Seeding(p) =>
    /\ ended
    /\ Len(log) = job[p].seq /\ Follows(job[p].meta, job[p].seq)
    /\ \A q \in Process : Seeding(q) => q = p
    /\ job[p].doing = "seed" => snapshot = None
    /\ job[p].doing = "save" => snapshot = Partial /\ LogIsComplete(p)

\* A line that only the bodies and the dynamics of run m can have left.
OfRun(m, line) ==
    /\ line.event = "run.extended" => line.meta = m
    /\ line.event = "body.advanced" => line.version = m.version /\ line.who <= m.count

\* A command that advances read a snapshot that is there for good, and the line
\* it may run on from is none of the seed's.
Attested ==
    /\ snapshot \in RunMetadata =>
          /\ Follows(snapshot, Len(Script(snapshot)))
          /\ ~ended => Len(log) > Len(Script(snapshot))
          /\ \A i \in DOMAIN log : OfRun(snapshot, log[i])
          /\ \A p \in Advancing :
                /\ job[p].meta = snapshot /\ job[p].version = snapshot.version
                /\ job[p].who <= snapshot.count
    /\ snapshot \notin RunMetadata =>
          /\ Advancing = {}
          /\ log # None => \A i \in DOMAIN log :
                log[i].event \notin {"run.extended", "body.advanced"}

\* Two advances that are open together have met.
Meeting ==
    \A p, q \in Advancing : p # q => {job[p].who, job[q].who} \in met

\* Until its phase is open an advance has a log it can read, and then one whose
\* last line is ended; who changed that has met it.
Unbroken ==
    \A p \in Advancing :
        \/ job[p].doing = "advance" /\ ended
        \/ job[p].doing # "advance" /\ Readable
        \/ \E d \in Character : {job[p].who, d} \in met

\* Nobody may have written between two moves of c, or after its torn line.
Undisturbed(c) ==
    {c} \notin met /\ (Readable \/ \A d \in Character : {c, d} \notin met)

\* An advance is where the history of its body ends.
Told == log # None => \A c \in Character : Undisturbed(c) =>
    /\ \A i \in History(c) : log[i].before = LivedBefore(c, i)
    /\ \A p \in Advancing : job[p].who = c =>
          job[p].hours = LivedBefore(c, Len(log) + 1)

\* Only one advance moves a body that did not meet itself, and it counts its lines.
Counted == log # None => \A c \in Character : {c} \notin met =>
    /\ \A h, i \in History(c) : h < i =>
          /\ log[h].seq < log[i].seq
          /\ log[i].seq = log[h].seq + 1 => log[i].before = log[h].after
    /\ \A p \in Advancing : job[p].who = c =>
          /\ job[p].doing # "advance" => History(c) = {}
          /\ \A h \in History(c) :
                /\ log[h].seq < job[p].seq
                /\ job[p].seq = log[h].seq + 1 => job[p].hours = log[h].after

\* The number of a line at i, and what comes after a line that was run on from.
NumberAt(i) == IF RunOnBefore(i) THEN i ELSE i - 1

Numbered == log # None /\ met = {} =>
    /\ \A i \in DOMAIN log : log[i] \notin {Torn, Garbled} => log[i].seq = NumberAt(i)
    /\ \A h, i \in DOMAIN log : log[h] = Garbled /\ h < i =>
          \/ log[i] = Torn /\ i = Len(log)
          \/ /\ log[i].event = "body.advanced"
             /\ \A j \in DOMAIN log : h < j /\ log[j] # Torn => log[j].who = log[i].who
    /\ \A p \in Advancing :
          /\ job[p].doing # "reopen" => job[p].seq = NumberAt(Len(log) + 1)
          /\ \A i \in DOMAIN log : log[i] # Torn
          /\ \A h, i \in DOMAIN log : log[h] = Garbled /\ h < i =>
                log[i].event = "body.advanced" /\ log[i].who = job[p].who

Coherent ==
    /\ Typed /\ Unseeded /\ SeedOwns /\ Attested
    /\ Meeting /\ Unbroken /\ Told /\ Counted /\ Numbered

--------------------------------------------------------------------------------
(* What a seed writes.                                                     *)

LEMMA MetadataTyped ==
    ASSUME NEW m \in RunMetadata
    PROVE  m.count \in Nat \ {0} /\ m # Partial /\ m # None
<1>1. m.count \in Nat \ {0}
  BY CohortAssumption DEF RunMetadata
<1>2. m # None
  BY NoneAssumption
<1>3. DOMAIN m = {"seed", "version", "count"} /\ DOMAIN Partial = {"count"}
  BY DEF RunMetadata, Partial
<1>4. m # Partial
  BY <1>3
<1> QED
  BY <1>1, <1>2, <1>4

LEMMA Joined ==
    ASSUME NEW S, NEW a \in Seq(S), NEW b \in Seq(S)
    PROVE  /\ a \o b \in Seq(S) /\ Len(a \o b) = Len(a) + Len(b)
           /\ \A i \in 1..Len(a) : (a \o b)[i] = a[i]
           /\ \A i \in 1..Len(b) : (a \o b)[Len(a) + i] = b[i]
OBVIOUS

\* The lines of a seed are numbered from none, and none of them is torn.
LEMMA ScriptIs ==
    ASSUME NEW m \in RunMetadata
    PROVE  /\ Script(m) \in Seq(Line) /\ Len(Script(m)) = m.count + 2
           /\ \A i \in 1..Len(Script(m)) :
                 /\ Script(m)[i] \notin {Torn, Garbled} /\ Script(m)[i].seq = i - 1
                 /\ Script(m)[i].event \notin {"run.extended", "body.advanced"}
<1> DEFINE opening == [seq |-> 0, event |-> "run.started", meta |-> m]
           bodies  == [c \in 1..m.count |->
                          [seq |-> c, event |-> "capacity.sampled", who |-> c]]
           report  == [seq |-> m.count + 1, event |-> "cohort.correlation_report"]
<1>1. m.count \in Nat
  BY MetadataTyped
<1>2. opening \in Line /\ report \in Line
  BY <1>1 DEF Line
<1>3. \A c \in 1..m.count :
         [seq |-> c, event |-> "capacity.sampled", who |-> c] \in Line
  BY <1>1 DEF Line
<1>4. bodies \in Seq(Line) /\ Len(bodies) = m.count
  BY <1>1, <1>3
<1>5. <<opening>> \in Seq(Line) /\ Len(<<opening>>) = 1 /\ <<opening>>[1] = opening
  BY <1>2
<1>6. <<report>> \in Seq(Line) /\ Len(<<report>>) = 1 /\ <<report>>[1] = report
  BY <1>2
<1> HIDE DEF opening, bodies, report
<1>7. Script(m) = (<<opening>> \o bodies) \o <<report>>
  BY DEF Script, opening, bodies, report
<1> DEFINE head == <<opening>> \o bodies
<1>8. /\ head \in Seq(Line) /\ Len(head) = m.count + 1
      /\ head[1] = opening
      /\ \A c \in 1..m.count : head[c + 1] = bodies[c]
  BY <1>1, <1>4, <1>5
<1> HIDE DEF head
<1>9. /\ Script(m) \in Seq(Line) /\ Len(Script(m)) = m.count + 2
      /\ \A i \in 1..m.count + 1 : Script(m)[i] = head[i]
      /\ Script(m)[m.count + 2] = report
  <2>1. Script(m) = head \o <<report>>
    BY <1>7 DEF head
  <2>2. PICK r : r = <<report>> /\ r \in Seq(Line) /\ Len(r) = 1 /\ r[1] = report
    BY <1>6
  <2>3. /\ Script(m) \in Seq(Line) /\ Len(Script(m)) = Len(head) + Len(r)
        /\ \A i \in 1..Len(head) : Script(m)[i] = head[i]
        /\ \A i \in 1..Len(r) : Script(m)[Len(head) + i] = r[i]
    BY <1>8, <2>1, <2>2, Joined
  <2>4. Len(head) + Len(r) = m.count + 2
    BY <1>1, <1>8, <2>2
  <2>5. Script(m)[m.count + 2] = report
    <3>1. Script(m)[Len(head) + 1] = report /\ Len(head) + 1 = m.count + 2
      BY <1>1, <1>8, <2>2, <2>3
    <3> QED
      BY <3>1
  <2> QED
    BY <1>8, <2>3, <2>4, <2>5
<1>10. ASSUME NEW i \in 1..Len(Script(m))
       PROVE  /\ Script(m)[i] \notin {Torn, Garbled} /\ Script(m)[i].seq = i - 1
              /\ Script(m)[i].event \notin {"run.extended", "body.advanced"}
  <2>1. CASE i = 1
    <3>1. 1 \in 1..m.count + 1
      BY <1>1
    <3>2. Script(m)[1] = head[1]
      BY <1>9, <3>1
    <3>3. Script(m)[1] = opening
      BY <1>8, <3>2
    <3> QED
      BY <2>1, <3>3 DEF opening, Torn, Garbled
  <2>2. CASE i = m.count + 2
    BY <1>1, <1>9, <2>2 DEF report, Torn, Garbled
  <2>3. CASE i # 1 /\ i # m.count + 2
    <3>1. i - 1 \in 1..m.count /\ i = (i - 1) + 1 /\ i \in 1..m.count + 1
      BY <1>1, <1>9, <2>3
    <3>2. Script(m)[i] = bodies[i - 1]
      BY <1>8, <1>9, <3>1
    <3>3. Script(m)[i] = [seq |-> i - 1, event |-> "capacity.sampled", who |-> i - 1]
      BY <3>1, <3>2 DEF bodies
    <3> QED
      BY <3>3 DEF Torn, Garbled
  <2> QED
    BY <2>1, <2>2, <2>3
<1> QED
  BY <1>9, <1>10

--------------------------------------------------------------------------------
(* How a log grows.                                                        *)

LEMMA LinesTyped == Torn \in Line /\ Garbled \in Line
BY DEF Line

\* What an append leaves of a log.
LEMMA Grown ==
    ASSUME log \in Seq(Line), NEW line \in Line, log' = Append(log, line)
    PROVE  /\ log' \in Seq(Line) /\ Len(log') = Len(log) + 1 /\ Len(log) \in Nat
           /\ DOMAIN log = 1..Len(log) /\ DOMAIN log' = 1..Len(log) + 1
           /\ \A i \in 1..Len(log) : log'[i] = log[i]
           /\ log'[Len(log) + 1] = line
           /\ Readable' <=> Readable /\ line \notin {Torn, Garbled}
<1>1. /\ log' \in Seq(Line) /\ Len(log') = Len(log) + 1 /\ Len(log) \in Nat
      /\ DOMAIN log = 1..Len(log) /\ DOMAIN log' = 1..Len(log) + 1
      /\ \A i \in 1..Len(log) : log'[i] = log[i]
      /\ log'[Len(log) + 1] = line
  OBVIOUS
<1>2. Readable' <=> \A i \in 1..Len(log) + 1 : log'[i] \notin {Torn, Garbled}
  BY <1>1 DEF Readable
<1>3. Readable <=> \A i \in 1..Len(log) : log[i] \notin {Torn, Garbled}
  BY <1>1 DEF Readable
<1>4. 1..Len(log) + 1 = (1..Len(log)) \cup {Len(log) + 1}
  BY <1>1
<1> QED
  BY <1>1, <1>2, <1>3, <1>4

--------------------------------------------------------------------------------
(* Steps that only end a command.                                          *)

\* A step of one process changes no other command.
LEMMA OneCommand ==
    ASSUME Typed, NEW p \in Process, NEW k, job' = [job EXCEPT ![p] = k]
    PROVE  /\ job'[p] = k
           /\ \A q \in Process : q # p =>
                 /\ job'[q] = job[q]
                 /\ q \in Advancing' <=> q \in Advancing
                 /\ Seeding(q)' <=> Seeding(q)
           /\ p \in Advancing' <=> k # None /\ k.doing \in {"reopen", "extend", "advance"}
           /\ Seeding(p)' <=> k # None /\ k.doing \in {"seed", "save"}
<1>1. job'[p] = k /\ \A q \in Process : q # p => job'[q] = job[q]
  BY DEF Typed
<1> QED
  BY <1>1 DEF Advancing, Seeding

LEMMA AdvancingCommand ==
    ASSUME Typed, NEW p \in Advancing
    PROVE  /\ p \in Process /\ job[p] \in Command /\ job[p] # None
           /\ job[p].doing \in {"reopen", "extend", "advance"}
           /\ job[p].seq \in Nat /\ job[p].who \in Character
           /\ job[p].version \in Version /\ job[p].hours \in Nat
           /\ job[p].segments \in Seq(Nat) \ {<<>>} /\ job[p].meta \in RunMetadata
           /\ job[p] \in [doing : {"reopen", "extend", "advance"},
                          meta : RunMetadata, seq : Nat, who : Character,
                          version : Version, hours : Nat, segments : Seq(Nat) \ {<<>>}]
<1>1. p \in Process /\ job[p] # None /\ job[p].doing \in {"reopen", "extend", "advance"}
  BY DEF Advancing
<1>2. job[p] \in Command
  BY <1>1 DEF Typed
<1>3. job[p] \in [doing : {"reopen", "extend", "advance"},
                  meta : RunMetadata, seq : Nat, who : Character,
                  version : Version, hours : Nat, segments : Seq(Nat) \ {<<>>}]
  BY <1>1, <1>2 DEF Command
<1> QED
  BY <1>1, <1>2, <1>3

\* The log that an advance extends is there, and nobody seeds.
LEMMA AdvancingRun ==
    ASSUME Coherent, NEW p \in Advancing
    PROVE  /\ log \in Seq(Line) /\ log # None /\ snapshot \in RunMetadata
           /\ job[p].meta = snapshot /\ job[p].version = snapshot.version
           /\ job[p].who <= snapshot.count
           /\ \A q \in Process : ~Seeding(q)
           /\ Typed /\ p \in Process
           /\ job[p].who \in Character /\ job[p].seq \in Nat
           /\ Len(log) \in Nat /\ DOMAIN log = 1..Len(log)
<1>1. snapshot \in RunMetadata
  BY DEF Coherent, Attested
<1>2. log # None
  BY <1>1, MetadataTyped DEF Coherent, Unseeded
<1>3. ASSUME NEW q \in Process PROVE ~Seeding(q)
  BY <1>1, MetadataTyped DEF Coherent, SeedOwns, Seeding
<1>4. /\ Typed /\ p \in Process
      /\ job[p].who \in Character /\ job[p].seq \in Nat
  BY AdvancingCommand DEF Coherent
<1>5. log \in Seq(Line) /\ Len(log) \in Nat /\ DOMAIN log = 1..Len(log)
  <2>1. log \in Seq(Line)
    BY <1>2, <1>4 DEF Typed
  <2> QED
    BY <2>1
<1> QED
  BY <1>1, <1>2, <1>3, <1>4, <1>5 DEF Coherent, Attested

LEMMA SameLog ==
    ASSUME log' = log
    PROVE  /\ Readable' <=> Readable
           /\ \A c : History(c)' = History(c)
           /\ \A c, i : LivedBefore(c, i)' = LivedBefore(c, i)
           /\ \A i : NumberAt(i)' = NumberAt(i)
<1>1. Readable' <=> Readable
  BY DEF Readable
<1>2. \A c : History(c)' = History(c)
  BY DEF History
<1>3. \A c, i : LivedBefore(c, i)' = LivedBefore(c, i)
  BY <1>2 DEF LivedBefore
<1>4. \A i : NumberAt(i)' = NumberAt(i)
  BY DEF NumberAt, RunOnBefore
<1> QED
  BY <1>1, <1>2, <1>3, <1>4

LEMMA EndKeeps ==
    ASSUME Coherent, NEW p \in Process, job[p] # None, Closes(p),
           log' = log, ended' = ended, snapshot' = snapshot, met' = met
    PROVE  Coherent'
<1>1. log' = log /\ ended' = ended /\ job' = [job EXCEPT ![p] = None]
  BY DEF Closes
<1>2. Typed
  BY DEF Coherent
<1>3. /\ job'[p] = None
      /\ \A q \in Process : q # p => job'[q] = job[q]
      /\ Advancing' \subseteq Advancing \ {p}
      /\ \A q \in Process : Seeding(q)' => q # p /\ Seeding(q)
  <2>1. Advancing' \subseteq Process
    BY DEF Advancing
  <2> QED
    BY <1>1, <1>2, <2>1, OneCommand
<1>4. \A q \in Advancing' : q \in Advancing /\ job'[q] = job[q]
  BY <1>3 DEF Advancing
<1>5. Typed'
  BY <1>1, <1>2 DEF Typed
<1>6. Unseeded'
  BY <1>1, <1>3 DEF Coherent, Unseeded
<1>7. SeedOwns'
  BY <1>1, <1>3 DEF Coherent, SeedOwns, Follows, LogIsComplete
<1>8. Attested'
  BY <1>1, <1>4 DEF Coherent, Attested, Follows, OfRun
<1>9. Meeting' /\ Unbroken'
  <2>1. Meeting'
    BY <1>4 DEF Coherent, Meeting
  <2>2. Readable' <=> Readable
    BY <1>1, SameLog
  <2>3. ASSUME NEW q \in Advancing'
        PROVE  \/ job'[q].doing = "advance" /\ ended'
               \/ job'[q].doing # "advance" /\ Readable'
               \/ \E d \in Character : {job'[q].who, d} \in met'
    <3>1. q \in Advancing /\ job'[q] = job[q] /\ ended' = ended /\ met' = met
      BY <1>1, <1>4
    <3>2. \/ job[q].doing = "advance" /\ ended
          \/ job[q].doing # "advance" /\ Readable
          \/ \E d \in Character : {job[q].who, d} \in met
      BY <3>1 DEF Coherent, Unbroken
    <3> QED
      BY <2>2, <3>1, <3>2
  <2> QED
    BY <2>1, <2>3 DEF Unbroken
<1>10. \A c, i : History(c)' = History(c) /\ LivedBefore(c, i)' = LivedBefore(c, i)
  BY <1>1, SameLog
<1>11. Told'
  <2>1. \A c : Undisturbed(c)' <=> Undisturbed(c)
    BY <1>1, SameLog DEF Undisturbed
  <2> QED
    BY <1>1, <1>4, <1>10, <2>1 DEF Coherent, Told
<1>12. Counted'
  BY <1>1, <1>4, <1>10 DEF Coherent, Counted
<1>13. Numbered'
  BY <1>1, <1>4 DEF Coherent, Numbered, NumberAt, RunOnBefore
<1> QED
  BY <1>5, <1>6, <1>7, <1>8, <1>9, <1>11, <1>12, <1>13 DEF Coherent

--------------------------------------------------------------------------------
(* What the end of a log says of a body.                                   *)

\* A set of numbers up to n has a greatest element.
LEMMA GreatestNumber ==
    ASSUME NEW n \in Nat, NEW T, T \subseteq 1..n, T # {}
    PROVE  Max(T) \in T /\ \A m \in T : m <= Max(T)
<1> DEFINE R == {x \in Nat \X Nat : x[1] < x[2]}
           B == {k \in 0..n : n - k \in T}
<1>1. IsWellFoundedOn(R, Nat)
  BY NatLessThanWellFounded DEF OpToRel
<1>2. B \subseteq Nat /\ B # {}
  <2>1. PICK t \in T : TRUE
    OBVIOUS
  <2>2. t \in 1..n /\ n - t \in 0..n /\ n - (n - t) = t
    BY <2>1
  <2>3. n - t \in B
    BY <2>1, <2>2
  <2>4. B \subseteq Nat
    OBVIOUS
  <2> HIDE DEF B
  <2> QED
    BY <2>3, <2>4
<1>3. PICK k \in B : \A j \in B : <<j, k>> \notin R
  BY <1>1, <1>2, WFMin
<1>4. n - k \in T /\ k \in Nat
  BY <1>2
<1>5. ASSUME NEW m \in T PROVE m <= n - k
  <2>1. m \in 1..n /\ n - m \in 0..n /\ n - (n - m) = m
    OBVIOUS
  <2>2. n - m \in B
    BY <2>1
  <2>3. ~(n - m < k)
    BY <1>2, <1>3, <2>2
  <2> QED
    BY <1>4, <2>1, <2>3
<1>6. \E x \in T : \A y \in T : x >= y
  BY <1>4, <1>5
<1>7. Max(T) \in T /\ \A y \in T : Max(T) >= y
  BY <1>6 DEF Max
<1> QED
  BY <1>7

LEMMA HistoryIs ==
    ASSUME log \in Seq(Line), NEW c, NEW i
    PROVE  /\ History(c) \subseteq 1..Len(log)
           /\ LET earlier == {h \in History(c) : h < i} IN
              earlier # {} => Max(earlier) \in earlier /\ Max(earlier) \in 1..Len(log)
<1>1. History(c) \subseteq 1..Len(log) /\ Len(log) \in Nat
  BY DEF History
<1> QED
  BY <1>1, GreatestNumber

Moves(line, c) == line.event = "body.advanced" /\ line.who = c

\* A line that is appended comes after all that was told.
LEMMA GrownHistory ==
    ASSUME log \in Seq(Line), NEW line \in Line, log' = Append(log, line), NEW c
    PROVE  /\ History(c)' = IF Moves(line, c) THEN History(c) \cup {Len(log) + 1}
                                              ELSE History(c)
           /\ \A i \in 1..Len(log) + 1 : LivedBefore(c, i)' = LivedBefore(c, i)
           /\ LivedBefore(c, Len(log) + 1)' =
                 IF Moves(line, c) THEN line.after ELSE LivedBefore(c, Len(log) + 1)
<1>n. PICK n \in Nat : n = Len(log)
  OBVIOUS
<1>1. /\ n \in Nat /\ DOMAIN log = 1..n /\ DOMAIN log' = 1..n + 1
      /\ \A i \in 1..n : log'[i] = log[i]
      /\ log'[n + 1] = line
  BY <1>n, Grown
<1>2. History(c)' = {i \in 1..n + 1 : log'[i].event = "body.advanced" /\ log'[i].who = c}
  BY <1>1 DEF History
<1>3. History(c) = {i \in 1..n : log[i].event = "body.advanced" /\ log[i].who = c}
  BY <1>1 DEF History
<1>4. 1..n + 1 = (1..n) \cup {n + 1} /\ n + 1 \notin 1..n
  BY <1>1
<1>5. History(c)' = IF Moves(line, c) THEN History(c) \cup {n + 1} ELSE History(c)
  BY <1>1, <1>2, <1>3, <1>4 DEF Moves
<1>6. History(c) \subseteq 1..n
  BY <1>3
<1> HIDE DEF History
<1>7. ASSUME NEW i \in 1..n + 1 PROVE LivedBefore(c, i)' = LivedBefore(c, i)
  <2> DEFINE earlier == {h \in History(c) : h < i}
  <2>1. {h \in History(c)' : h < i} = earlier
    BY <1>1, <1>5, <1>6
  <2>2. earlier # {} => Max(earlier) \in 1..n
    BY <1>n, HistoryIs
  <2>3. earlier # {} => log'[Max(earlier)].after = log[Max(earlier)].after
    BY <1>1, <2>2
  <2>4. LivedBefore(c, i) = IF earlier = {} THEN 0 ELSE log[Max(earlier)].after
    BY DEF LivedBefore
  <2>5. LivedBefore(c, i)' = IF earlier = {} THEN 0 ELSE log'[Max(earlier)].after
    BY <2>1 DEF LivedBefore
  <2>6. CASE earlier = {}
    <3>1. LivedBefore(c, i) = 0
      BY <2>4, <2>6
    <3>2. LivedBefore(c, i)' = 0
      BY <2>5, <2>6
    <3> QED
      BY <3>1, <3>2
  <2>7. CASE earlier # {}
    <3>1. LivedBefore(c, i) = log[Max(earlier)].after
      BY <2>4, <2>7
    <3>2. LivedBefore(c, i)' = log'[Max(earlier)].after
      BY <2>5, <2>7
    <3> QED
      BY <2>3, <2>7, <3>1, <3>2
  <2> QED
    BY <2>6, <2>7
<1>8. LivedBefore(c, n + 2)' = IF Moves(line, c) THEN line.after ELSE LivedBefore(c, n + 1)
  <2> DEFINE all == History(c)'
  <2>1. {h \in History(c)' : h < n + 2} = all
    BY <1>1, <1>5, <1>6
  <2> HIDE DEF all
  <2>2. LivedBefore(c, n + 2)' = IF all = {} THEN 0 ELSE log'[Max(all)].after
    BY <2>1 DEF LivedBefore
  <2>3. CASE Moves(line, c)
    <3>1. all = History(c) \cup {n + 1}
      BY <1>5, <2>3 DEF all
    <3>2. all \subseteq 1..n + 1 /\ n + 1 \in Nat /\ all # {} /\ n + 1 \in all
      BY <1>1, <1>6, <3>1
    <3>3. Max(all) \in all /\ n + 1 <= Max(all)
      BY <3>2, GreatestNumber
    <3>4. Max(all) = n + 1
      <4>1. Max(all) \in 1..n + 1 /\ n + 1 <= Max(all)
        BY <3>2, <3>3
      <4> QED
        BY <1>1, <4>1
    <3> QED
      BY <1>1, <2>2, <2>3, <3>2, <3>4
  <2>4. CASE ~Moves(line, c)
    <3>1. all = History(c)
      BY <1>5, <2>4 DEF all
    <3>2. {h \in History(c) : h < n + 1} = History(c)
      BY <1>1, <1>6
    <3>3. LivedBefore(c, n + 1) = IF History(c) = {} THEN 0 ELSE log[Max(History(c))].after
      BY <3>2 DEF LivedBefore
    <3>4. History(c) # {} => Max(History(c)) \in 1..n
      BY <1>1, <1>6, GreatestNumber
    <3> QED
      BY <1>1, <2>2, <2>4, <3>1, <3>3, <3>4
  <2> QED
    BY <2>3, <2>4
<1>9. LivedBefore(c, Len(log) + 1)' =
         IF Moves(line, c) THEN line.after ELSE LivedBefore(c, n + 1)
  <2>1. Len(log') + 1 = n + 2
    BY <1>n, Grown
  <2>2. \A i : i = n + 2 => LivedBefore(c, i)' =
           IF Moves(line, c) THEN line.after ELSE LivedBefore(c, n + 1)
    BY <1>8
  <2> QED
    BY <2>1, <2>2
<1> QED
  BY <1>n, <1>5, <1>7, <1>9

\* A line that loses its newline to another is lost, and no more than that.
LEMMA Spoiled ==
    ASSUME log \in Seq(Line) \ {<<>>}, NEW x \in {Torn, Garbled},
           log' = Append(Front(log), x)
    PROVE  /\ log' \in Seq(Line) \ {<<>>} /\ Len(log') = Len(log)
           /\ Len(log) \in Nat \ {0} /\ Len(log) \in 1..Len(log)
           /\ DOMAIN log = 1..Len(log) /\ DOMAIN log' = 1..Len(log)
           /\ \A i \in 1..Len(log) : i # Len(log) => log'[i] = log[i]
           /\ log'[Len(log)] = x
           /\ ~Readable'
<1>1. Len(log) \in Nat \ {0} /\ Len(log) \in 1..Len(log) /\ DOMAIN log = 1..Len(log)
  OBVIOUS
<1>n. PICK n \in Nat \ {0} : n = Len(log)
  BY <1>1
<1>2. PICK k \in Nat : k = Len(log) - 1 /\ k + 1 = n
  <2>1. n - 1 \in Nat /\ n - 1 = Len(log) - 1 /\ (n - 1) + 1 = n
    BY <1>n
  <2> QED
    BY <2>1
<1>3. log' = Append(SubSeq(log, 1, k), x)
  BY <1>2 DEF Front
<1>4. k \in 0..Len(log) /\ 1..k \subseteq 1..Len(log)
  BY <1>1, <1>2
<1>5. /\ SubSeq(log, 1, k) \in Seq(Line) /\ Len(SubSeq(log, 1, k)) = k
      /\ \A i \in 1..k : SubSeq(log, 1, k)[i] = log[i]
  BY <1>4, SubSeqProperties
<1>6. x \in Line
  BY LinesTyped
<1>7. PICK front \in Seq(Line) : /\ front = SubSeq(log, 1, k) /\ Len(front) = k
                                 /\ \A i \in 1..k : front[i] = log[i]
  BY <1>5
<1>8. log' = Append(front, x)
  BY <1>3, <1>7
<1>9. /\ log' \in Seq(Line) /\ Len(log') = k + 1 /\ DOMAIN log' = 1..k + 1
      /\ \A i \in 1..k : log'[i] = front[i]
      /\ log'[k + 1] = x
  BY <1>6, <1>7, <1>8
<1>10. k + 1 = Len(log) /\ \A i \in 1..Len(log) : i # Len(log) => i \in 1..k
  <2>1. \A i \in 1..n : i # n => i \in 1..k
    BY <1>2
  <2> QED
    BY <1>n, <1>2, <2>1
<1>11. ~Readable'
  BY <1>1, <1>9, <1>10 DEF Readable
<1>12. log' # <<>>
  BY <1>1, <1>9, <1>10
<1> QED
  BY <1>1, <1>7, <1>9, <1>10, <1>11, <1>12

\* What it told of a body is no longer told; what came before still is.
LEMMA SpoiledHistory ==
    ASSUME log \in Seq(Line) \ {<<>>}, NEW x \in {Torn, Garbled},
           log' = Append(Front(log), x), NEW c
    PROVE  /\ History(c)' = History(c) \ {Len(log)}
           /\ \A i \in 1..Len(log) : LivedBefore(c, i)' = LivedBefore(c, i)
           /\ Len(log) \notin History(c) =>
                 LivedBefore(c, Len(log) + 1)' = LivedBefore(c, Len(log) + 1)
<1>n. PICK n \in Nat \ {0} : n = Len(log)
  OBVIOUS
<1>1. /\ n \in 1..n /\ DOMAIN log = 1..n /\ DOMAIN log' = 1..n /\ Len(log') = n
      /\ \A i \in 1..n : i # n => log'[i] = log[i]
      /\ log'[n] = x
  BY <1>n, Spoiled
<1>2. x.event # "body.advanced"
  BY DEF Torn, Garbled
<1>3. History(c)' = {i \in 1..n : log'[i].event = "body.advanced" /\ log'[i].who = c}
  BY <1>1 DEF History
<1>4. History(c) = {i \in 1..n : log[i].event = "body.advanced" /\ log[i].who = c}
  BY <1>1 DEF History
<1>5. History(c)' = History(c) \ {n}
  BY <1>1, <1>2, <1>3, <1>4
<1>6. History(c) \subseteq 1..n
  BY <1>4
<1> HIDE DEF History
<1>7. ASSUME NEW i, {h \in History(c)' : h < i} = {h \in History(c) : h < i}
      PROVE  LivedBefore(c, i)' = LivedBefore(c, i)
  <2> DEFINE earlier == {h \in History(c) : h < i}
  <2>1. {h \in History(c)' : h < i} = earlier
    BY <1>7
  <2>2. ASSUME earlier # {} PROVE log'[Max(earlier)].after = log[Max(earlier)].after
    <3>1. Max(earlier) \in earlier
      BY <2>2, HistoryIs
    <3>2. Max(earlier) \in 1..n /\ Max(earlier) # n
      BY <1>5, <1>6, <2>1, <3>1
    <3> QED
      BY <1>1, <3>2
  <2>3. LivedBefore(c, i) = IF earlier = {} THEN 0 ELSE log[Max(earlier)].after
    BY DEF LivedBefore
  <2>4. LivedBefore(c, i)' = IF earlier = {} THEN 0 ELSE log'[Max(earlier)].after
    BY <2>1 DEF LivedBefore
  <2> HIDE DEF earlier
  <2>5. CASE earlier = {}
    BY <2>3, <2>4, <2>5
  <2>6. CASE earlier # {}
    <3>1. LivedBefore(c, i) = log[Max(earlier)].after
      BY <2>3, <2>6
    <3>2. LivedBefore(c, i)' = log'[Max(earlier)].after
      BY <2>4, <2>6
    <3> QED
      BY <2>2, <2>6, <3>1, <3>2
  <2> QED
    BY <2>5, <2>6
<1>8. ASSUME NEW i \in 1..n PROVE LivedBefore(c, i)' = LivedBefore(c, i)
  <2>1. {h \in History(c)' : h < i} = {h \in History(c) : h < i}
    BY <1>5, <1>6
  <2> QED
    BY <1>7, <2>1
<1>9. ASSUME n \notin History(c)
      PROVE  LivedBefore(c, n + 1)' = LivedBefore(c, n + 1)
  <2>1. {h \in History(c)' : h < n + 1} = {h \in History(c) : h < n + 1}
    BY <1>5, <1>9
  <2> QED
    BY <1>7, <2>1
<1>10. n \notin History(c) => LivedBefore(c, Len(log) + 1)' = LivedBefore(c, Len(log) + 1)
  <2>1. Len(log') + 1 = n + 1 /\ Len(log) + 1 = n + 1
    BY <1>n, <1>1
  <2>2. \A i : i = n + 1 /\ n \notin History(c) => LivedBefore(c, i)' = LivedBefore(c, i)
    BY <1>9
  <2> QED
    BY <2>1, <2>2
<1> QED
  BY <1>n, <1>5, <1>8, <1>10

--------------------------------------------------------------------------------
(* Steps of an advance that write.                                         *)

\* What an advance at p writes next, or tears, and where it is then.
Offers(p, line, k) ==
    /\ line \in Line
    /\ line # Torn =>
          /\ line # Garbled /\ line.seq = job[p].seq
          /\ OfRun(snapshot, line)
          /\ line.event = IF job[p].doing = "extend" THEN "run.extended"
                                                     ELSE "body.advanced"
          /\ line.event = "body.advanced" =>
                line.who = job[p].who /\ line.before = job[p].hours
    /\ k # None =>
          /\ line # Torn
          /\ k \in Command /\ k.doing = "advance"
          /\ k.meta = job[p].meta /\ k.version = job[p].version
          /\ k.who = job[p].who /\ k.seq = job[p].seq + 1
          /\ k.hours = IF line.event = "body.advanced" THEN line.after
                                                       ELSE job[p].hours

Written(p, line, x, k) ==
    /\ job[p].doing \in {"extend", "advance"}
    /\ Offers(p, line, k)
    /\ x \in {Torn, Garbled} /\ (k # None => x = Garbled)
    /\ log' = IF ended THEN Append(log, line) ELSE Append(Front(log), x)
    /\ ended' \in BOOLEAN /\ (k # None => ended')
    /\ job' = [job EXCEPT ![p] = k]
    /\ snapshot' = snapshot /\ met' = met

\* A log is not an absent one.
LEMMA LogIsThere ==
    ASSUME NEW q \in Seq(Line)
    PROVE  q # None
BY NoneAssumption

\* Nobody has met an advance that runs alone.
LEMMA RunsAlone ==
    ASSUME Coherent, NEW p \in Advancing, met = {}
    PROVE  /\ \A q \in Advancing : q = p
           /\ job[p].doing = "advance" => ended
           /\ job[p].doing # "advance" => Readable
BY DEF Coherent, Meeting, Unbroken

\* What every write leaves as it was.
LEMMA WritingGrows ==
    ASSUME Coherent, NEW p \in Advancing, NEW line, NEW x, NEW k, Written(p, line, x, k)
    PROVE  /\ log' \in Seq(Line) \ {<<>>} /\ Len(log) \in Nat
           /\ DOMAIN log = 1..Len(log)
           /\ ended => /\ Len(log') = Len(log) + 1 /\ DOMAIN log' = 1..Len(log) + 1
                       /\ \A i \in 1..Len(log) : log'[i] = log[i]
                       /\ log'[Len(log) + 1] = line
                       /\ Readable' => Readable
           /\ ~ended => /\ Len(log') = Len(log) /\ DOMAIN log' = 1..Len(log)
                        /\ Len(log) \in 1..Len(log)
                        /\ \A i \in 1..Len(log) : i # Len(log) => log'[i] = log[i]
                        /\ log'[Len(log)] = x
                        /\ ~Readable'
<1>1. log \in Seq(Line) /\ line \in Line /\ x \in {Torn, Garbled} /\ Typed
  BY AdvancingRun DEF Written, Offers, Coherent
<1>2. Len(log) \in Nat /\ DOMAIN log = 1..Len(log)
  BY <1>1
<1>3. CASE ended
  <2>1. log' = Append(log, line)
    BY <1>3 DEF Written
  <2>2. /\ log' \in Seq(Line) /\ Len(log') = Len(log) + 1
        /\ DOMAIN log' = 1..Len(log) + 1
        /\ \A i \in 1..Len(log) : log'[i] = log[i]
        /\ log'[Len(log) + 1] = line
        /\ Readable' => Readable
    BY <1>1, <2>1, Grown
  <2>3. log' # <<>>
    BY <1>2, <2>2
  <2> QED
    BY <1>2, <1>3, <2>2, <2>3
<1>4. CASE ~ended
  <2>1. log' = Append(Front(log), x) /\ log \in Seq(Line) \ {<<>>}
    BY <1>1, <1>4 DEF Written, Typed
  <2> QED
    BY <1>1, <1>2, <1>4, <2>1, Spoiled
<1> QED
  BY <1>3, <1>4

\* Whatever its handle does, a writer leaves the others where they are.
LEMMA WritingKeeps ==
    ASSUME Coherent, NEW p \in Advancing, NEW line, NEW x, NEW k, Written(p, line, x, k)
    PROVE  /\ Typed' /\ Unseeded' /\ SeedOwns' /\ Attested'
           /\ Meeting' /\ Unbroken'
           /\ \A q \in Advancing' : q \in Advancing
           /\ \A q \in Advancing' : q # p => job'[q] = job[q]
           /\ \A q \in Advancing' : job'[q].who = job[q].who
           /\ p \in Advancing' => job'[p] = k /\ k # None
<1>h. /\ job[p].doing \in {"extend", "advance"}
      /\ Offers(p, line, k) /\ x \in {Torn, Garbled}
      /\ ended' \in BOOLEAN /\ (k # None => ended')
      /\ job' = [job EXCEPT ![p] = k]
      /\ snapshot' = snapshot /\ met' = met
  BY DEF Written
<1>1. /\ log \in Seq(Line) /\ log # None /\ snapshot \in RunMetadata
      /\ \A q \in Process : ~Seeding(q)
      /\ p \in Process /\ line \in Line /\ Typed
      /\ job[p].meta = snapshot /\ job[p].version = snapshot.version
      /\ job[p].who <= snapshot.count
  BY <1>h, AdvancingRun, AdvancingCommand DEF Coherent, Offers
<1>2. /\ job'[p] = k /\ \A q \in Process : q # p => job'[q] = job[q]
      /\ \A q \in Advancing' : q \in Advancing
      /\ \A q \in Process : ~Seeding(q)'
  <2>1. Advancing' \subseteq Process
    BY DEF Advancing
  <2>2. Seeding(p)' => k # None /\ k.doing \in {"seed", "save"}
    BY <1>h, <1>1, OneCommand
  <2>3. ~Seeding(p)'
    BY <1>h, <2>2 DEF Offers
  <2>4. /\ job'[p] = k
        /\ \A q \in Process : q # p =>
              /\ job'[q] = job[q]
              /\ q \in Advancing' <=> q \in Advancing
              /\ Seeding(q)' <=> Seeding(q)
    BY <1>h, <1>1, OneCommand
  <2> QED
    BY <1>1, <2>1, <2>3, <2>4
<1>3. \A q \in Advancing' : q # p => job'[q] = job[q]
  BY <1>2 DEF Advancing
<1>k. p \in Advancing' => job'[p] = k /\ k # None /\ k.doing = "advance"
  <2>1. p \in Advancing' => k # None
    BY <1>h, <1>1, OneCommand
  <2> QED
    BY <1>h, <1>2, <2>1 DEF Offers
<1>4. \A q \in Advancing' :
         /\ job'[q].who = job[q].who /\ job'[q].meta = job[q].meta
         /\ job'[q].version = job[q].version
  BY <1>h, <1>3, <1>k DEF Offers
<1>5. /\ log' \in Seq(Line) \ {<<>>} /\ Len(log) \in Nat /\ DOMAIN log = 1..Len(log)
      /\ Len(log') >= Len(log) /\ (ended => Len(log') > Len(log))
      /\ \A i \in 1..Len(log) : ended \/ i # Len(log) => log'[i] = log[i]
      /\ \A i \in DOMAIN log' :
            \/ i \in DOMAIN log /\ log'[i] = log[i]
            \/ log'[i] \in {line, x}
  <2>1. /\ log' \in Seq(Line) \ {<<>>} /\ Len(log) \in Nat /\ DOMAIN log = 1..Len(log)
        /\ ended => /\ Len(log') = Len(log) + 1 /\ DOMAIN log' = 1..Len(log) + 1
                    /\ \A i \in 1..Len(log) : log'[i] = log[i]
                    /\ log'[Len(log) + 1] = line
        /\ ~ended => /\ Len(log') = Len(log) /\ DOMAIN log' = 1..Len(log)
                     /\ \A i \in 1..Len(log) : i # Len(log) => log'[i] = log[i]
                     /\ log'[Len(log)] = x
    BY WritingGrows
  <2>2. PICK n \in Nat : n = Len(log)
    BY <2>1
  <2>3. 1..n + 1 = (1..n) \cup {n + 1} /\ n + 1 > n /\ n + 1 >= n /\ n >= n
    OBVIOUS
  <2>4. CASE ended
    BY <2>1, <2>2, <2>3, <2>4
  <2>5. CASE ~ended
    BY <2>1, <2>2, <2>3, <2>5
  <2> QED
    BY <2>4, <2>5
<1>6. Typed'
  <2>1. k \in Command \cup {None}
    BY <1>h DEF Offers
  <2>2. job' \in [Process -> Command \cup {None}]
    BY <1>h, <1>1, <2>1 DEF Typed
  <2> QED
    BY <1>h, <1>1, <1>5, <2>2 DEF Typed
<1>7. Unseeded' /\ SeedOwns'
  <2>1. \A q \in Process : job'[q] # None /\ job'[q].doing = "create" => job'[q].seq = 0
    BY <1>h, <1>2 DEF Offers, Coherent, Unseeded
  <2>2. log' # None
    BY <1>5, LogIsThere
  <2> QED
    BY <1>2, <2>1, <2>2 DEF Unseeded, SeedOwns
<1>8. Attested'
  <2>1. /\ Len(Script(snapshot)) <= Len(log)
        /\ ~ended => Len(log) > Len(Script(snapshot))
        /\ \A i \in 1..Len(Script(snapshot)) : log[i] = Script(snapshot)[i]
        /\ \A i \in DOMAIN log : OfRun(snapshot, log[i])
        /\ \A q \in Advancing : /\ job[q].meta = snapshot
                                /\ job[q].version = snapshot.version
                                /\ job[q].who <= snapshot.count
    BY <1>1 DEF Coherent, Attested, Follows
  <2>2. PICK n \in Nat : n = Len(Script(snapshot))
    BY <1>1, ScriptIs
  <2>m. PICK m \in Nat : m = Len(log)
    BY <1>5
  <2>n. PICK m2 \in Nat : m2 = Len(log')
    <3>1. log' \in Seq(Line)
      BY <1>5
    <3>2. Len(log') \in Nat
      BY <3>1
    <3> QED
      BY <3>2
  <2>3. m = Len(log) /\ m2 = Len(log')
    BY <2>m, <2>n
  <2>4. /\ n <= m /\ (~ended => m > n) /\ m2 >= m /\ (ended => m2 > m)
    BY <1>5, <2>1, <2>2, <2>3
  <2>5. m2 > n /\ n <= m2 /\ \A i \in 1..n : i \in 1..m /\ (ended \/ i # m)
    BY <2>4
  <2>6. \A i \in 1..n : log'[i] = Script(snapshot)[i]
    BY <1>5, <2>1, <2>2, <2>3, <2>5
  <2>7. /\ Follows(snapshot, Len(Script(snapshot)))'
        /\ Len(log') > Len(Script(snapshot))
    BY <1>h, <2>2, <2>3, <2>5, <2>6 DEF Follows
  <2>8. \A i \in DOMAIN log' : OfRun(snapshot, log'[i])
    <3>1. OfRun(snapshot, line) /\ OfRun(snapshot, x)
      BY <1>h DEF Offers, OfRun, Garbled, Torn
    <3> QED
      BY <1>5, <2>1, <3>1
  <2>9. \A q \in Advancing' : /\ job'[q].meta = snapshot
                              /\ job'[q].version = snapshot.version
                              /\ job'[q].who <= snapshot.count
    BY <1>2, <1>4, <2>1
  <2> QED
    BY <1>h, <1>1, <2>7, <2>8, <2>9 DEF Attested, OfRun
<1>9. Meeting'
  <2> SUFFICES ASSUME NEW q \in Advancing', NEW r \in Advancing', q # r
               PROVE  {job'[q].who, job'[r].who} \in met
    BY <1>h DEF Meeting
  <2>1. {job[q].who, job[r].who} \in met
    BY <1>2 DEF Coherent, Meeting
  <2> QED
    BY <1>4, <2>1
<1>10. Unbroken'
  <2> SUFFICES ASSUME NEW q \in Advancing'
               PROVE  \/ job'[q].doing = "advance" /\ ended'
                      \/ job'[q].doing # "advance" /\ Readable'
                      \/ \E d \in Character : {job'[q].who, d} \in met
    BY <1>h DEF Unbroken
  <2>1. CASE q = p
    BY <1>h, <1>k, <2>1
  <2>2. CASE q # p
    <3>1. {job[q].who, job[p].who} \in met /\ job[p].who \in Character
      BY <1>1, <1>2, <2>2, AdvancingCommand DEF Coherent, Meeting
    <3> QED
      BY <1>4, <3>1
  <2> QED
    BY <2>1, <2>2
<1> QED
  BY <1>10, <1>2, <1>3, <1>4, <1>6, <1>7, <1>8, <1>9, <1>k

\* What is told of a body after a write: nothing but the move that was written,
\* or all but the line that was spoiled.
LEMMA WritingHistory ==
    ASSUME Coherent, NEW p \in Advancing, NEW line, NEW x, NEW k,
           Written(p, line, x, k), NEW c
    PROVE  /\ ended =>
                 /\ History(c)' = IF Moves(line, c) THEN History(c) \cup {Len(log) + 1}
                                                    ELSE History(c)
                 /\ \A i \in 1..Len(log) + 1 : LivedBefore(c, i)' = LivedBefore(c, i)
                 /\ LivedBefore(c, Len(log) + 1)' =
                       IF Moves(line, c) THEN line.after ELSE LivedBefore(c, Len(log) + 1)
           /\ ~ended =>
                 /\ History(c)' = History(c) \ {Len(log)}
                 /\ \A i \in 1..Len(log) : LivedBefore(c, i)' = LivedBefore(c, i)
                 /\ Len(log) \notin History(c) =>
                       LivedBefore(c, Len(log) + 1)' = LivedBefore(c, Len(log) + 1)
           /\ Moves(line, c) => /\ c = job[p].who /\ line.before = job[p].hours
                                /\ line.seq = job[p].seq
           /\ \A i \in History(c)' :
                 \/ i \in History(c) /\ i \in 1..Len(log) /\ log'[i] = log[i]
                 \/ ended /\ Moves(line, c) /\ i = Len(log) + 1 /\ log'[i] = line
<1>1. log \in Seq(Line) /\ line \in Line /\ x \in {Torn, Garbled} /\ Typed
  BY AdvancingRun DEF Written, Offers, Coherent
<1>2. /\ ended => log' = Append(log, line)
      /\ ~ended => log' = Append(Front(log), x) /\ log \in Seq(Line) \ {<<>>}
  BY <1>1 DEF Written, Typed
<1>3. ended =>
         /\ History(c)' = IF Moves(line, c) THEN History(c) \cup {Len(log) + 1}
                                            ELSE History(c)
         /\ \A i \in 1..Len(log) + 1 : LivedBefore(c, i)' = LivedBefore(c, i)
         /\ LivedBefore(c, Len(log) + 1)' =
               IF Moves(line, c) THEN line.after ELSE LivedBefore(c, Len(log) + 1)
  BY <1>1, <1>2, GrownHistory
<1>4. ~ended =>
         /\ History(c)' = History(c) \ {Len(log)}
         /\ \A i \in 1..Len(log) : LivedBefore(c, i)' = LivedBefore(c, i)
         /\ Len(log) \notin History(c) =>
               LivedBefore(c, Len(log) + 1)' = LivedBefore(c, Len(log) + 1)
  BY <1>1, <1>2, SpoiledHistory
<1>5. Moves(line, c) => /\ c = job[p].who /\ line.before = job[p].hours
                        /\ line.seq = job[p].seq
  <2>1. Torn.event # "body.advanced"
    BY DEF Torn
  <2> QED
    BY <2>1 DEF Moves, Written, Offers
<1>6. /\ ended => /\ \A i \in 1..Len(log) : log'[i] = log[i]
                  /\ log'[Len(log) + 1] = line
      /\ ~ended => \A i \in 1..Len(log) : i # Len(log) => log'[i] = log[i]
  BY WritingGrows
<1>7. History(c) \subseteq 1..Len(log)
  BY <1>1, HistoryIs
<1>8. ASSUME NEW i \in History(c)'
      PROVE  \/ i \in History(c) /\ i \in 1..Len(log) /\ log'[i] = log[i]
             \/ ended /\ Moves(line, c) /\ i = Len(log) + 1 /\ log'[i] = line
  <2>1. CASE ended
    BY <1>3, <1>6, <1>7, <1>8, <2>1
  <2>2. CASE ~ended
    BY <1>4, <1>6, <1>7, <1>8, <2>2
  <2> QED
    BY <2>1, <2>2
<1> QED
  BY <1>3, <1>4, <1>5, <1>8

\* An advance whose phase is not open yet has moved nothing.
LEMMA NothingMoved ==
    ASSUME Coherent, NEW p \in Advancing, {job[p].who} \notin met,
           job[p].doing # "advance"
    PROVE  History(job[p].who) = {}
<1>1. log # None /\ job[p].who \in Character
  BY AdvancingRun
<1> QED
  BY <1>1 DEF Coherent, Counted

\* The line an advance appends is the next of its body.
LEMMA WritingTells ==
    ASSUME Coherent, NEW p \in Advancing, NEW line, NEW x, NEW k, Written(p, line, x, k)
    PROVE  Told'
<1>1. /\ \A q \in Advancing' : q \in Advancing
      /\ \A q \in Advancing' : q # p => job'[q] = job[q]
      /\ \A q \in Advancing' : job'[q].who = job[q].who
      /\ p \in Advancing' => job'[p] = k /\ k # None
  BY WritingKeeps
<1>h. Offers(p, line, k) /\ met' = met
  BY DEF Written
<1>2. log \in Seq(Line) /\ log # None /\ Len(log) \in Nat /\ job[p].who \in Character
  BY AdvancingRun
<1> SUFFICES ASSUME NEW c \in Character, Undisturbed(c)'
             PROVE  /\ \A i \in History(c)' : log'[i].before = LivedBefore(c, i)'
                    /\ \A q \in Advancing' : job'[q].who = c =>
                          job'[q].hours = LivedBefore(c, Len(log) + 1)'
  BY DEF Told
<1>3. Readable' => Readable /\ ended
  BY WritingGrows
<1>4. Undisturbed(c) /\ {c} \notin met
      /\ (~ended => \A d \in Character : {c, d} \notin met)
  BY <1>h, <1>3 DEF Undisturbed
<1>5. /\ \A i \in History(c) : log[i].before = LivedBefore(c, i)
      /\ \A q \in Advancing : job[q].who = c =>
            job[q].hours = LivedBefore(c, Len(log) + 1)
  BY <1>2, <1>4 DEF Coherent, Told
<1>6. /\ ended =>
            /\ \A i \in 1..Len(log) + 1 : LivedBefore(c, i)' = LivedBefore(c, i)
            /\ LivedBefore(c, Len(log) + 1)' =
                  IF Moves(line, c) THEN line.after ELSE LivedBefore(c, Len(log) + 1)
      /\ ~ended =>
            /\ \A i \in 1..Len(log) : LivedBefore(c, i)' = LivedBefore(c, i)
            /\ Len(log) \notin History(c) =>
                  LivedBefore(c, Len(log) + 1)' = LivedBefore(c, Len(log) + 1)
      /\ Moves(line, c) => c = job[p].who /\ line.before = job[p].hours
      /\ \A i \in History(c)' :
            \/ i \in History(c) /\ i \in 1..Len(log) /\ log'[i] = log[i]
            \/ ended /\ Moves(line, c) /\ i = Len(log) + 1 /\ log'[i] = line
  BY WritingHistory
<1>7. ASSUME NEW i \in History(c)'
      PROVE  log'[i].before = LivedBefore(c, i)'
  <2>1. CASE i \in History(c) /\ i \in 1..Len(log) /\ log'[i] = log[i]
    <3>1. i \in 1..Len(log) + 1
      BY <1>2, <2>1
    <3>2. LivedBefore(c, i)' = LivedBefore(c, i)
      BY <1>6, <2>1, <3>1
    <3> QED
      BY <1>5, <2>1, <3>2
  <2>2. CASE ended /\ Moves(line, c) /\ i = Len(log) + 1 /\ log'[i] = line
    <3>1. i \in 1..Len(log) + 1
      BY <1>2, <2>2
    <3>2. LivedBefore(c, i)' = LivedBefore(c, i)
      BY <1>6, <2>2, <3>1
    <3>3. line.before = LivedBefore(c, i)
      BY <1>5, <1>6, <2>2
    <3> QED
      BY <2>2, <3>2, <3>3
  <2> QED
    BY <1>6, <2>1, <2>2
<1>8. ASSUME NEW q \in Advancing', job'[q].who = c
      PROVE  job'[q].hours = LivedBefore(c, Len(log) + 1)'
  <2>1. q \in Advancing /\ job[q].who = c
    BY <1>1, <1>8
  <2>2. job[q].hours = LivedBefore(c, Len(log) + 1)
    BY <1>5, <2>1
  <2>3. CASE q # p
    <3>1. {job[p].who, c} \in met /\ {c, job[p].who} \in met
      BY <2>1, <2>3 DEF Coherent, Meeting
    <3>2. c # job[p].who /\ ended
      BY <1>2, <1>4, <3>1
    <3>3. job'[q] = job[q]
      BY <1>1, <2>3
    <3>4. LivedBefore(c, Len(log) + 1)' = LivedBefore(c, Len(log) + 1)
      BY <1>6, <3>2
    <3> QED
      BY <2>2, <3>3, <3>4
  <2>4. CASE q = p
    <3>1. job'[p] = k /\ k # None
      BY <1>1, <2>4
    <3>2. line # Torn /\ k.hours = IF line.event = "body.advanced" THEN line.after
                                                                  ELSE job[p].hours
      BY <1>h, <3>1 DEF Offers
    <3>3. Moves(line, c) <=> line.event = "body.advanced"
      BY <1>h, <2>1, <2>4, <3>2 DEF Offers, Moves
    <3>4. CASE ended
      BY <1>6, <2>2, <2>4, <3>1, <3>2, <3>3, <3>4
    <3>5. CASE ~ended
      <4>1. job[p].doing # "advance"
        BY <1>4, <2>1, <2>4, <3>5 DEF Coherent, Unbroken
      <4>2. History(c) = {}
        BY <1>4, <2>1, <2>4, <4>1, NothingMoved
      <4>3. LivedBefore(c, Len(log) + 1)' = LivedBefore(c, Len(log) + 1)
        BY <1>6, <3>5, <4>2
      <4>4. line.event # "body.advanced"
        BY <1>h, <3>2, <4>1 DEF Written, Offers
      <4> QED
        BY <2>2, <2>4, <3>1, <3>2, <4>3, <4>4
    <3> QED
      BY <3>4, <3>5
  <2> QED
    BY <2>3, <2>4
<1> QED
  BY <1>7, <1>8

\* It has the next number of its body.
LEMMA WritingCounts ==
    ASSUME Coherent, NEW p \in Advancing, NEW line, NEW x, NEW k, Written(p, line, x, k)
    PROVE  Counted'
<1>1. /\ \A q \in Advancing' : q \in Advancing
      /\ \A q \in Advancing' : q # p => job'[q] = job[q]
      /\ \A q \in Advancing' : job'[q].who = job[q].who
      /\ p \in Advancing' => job'[p] = k /\ k # None
  BY WritingKeeps
<1>h. Offers(p, line, k) /\ met' = met /\ job[p].doing \in {"extend", "advance"}
  BY DEF Written
<1>2. log \in Seq(Line) /\ log # None /\ Len(log) \in Nat /\ job[p].seq \in Nat
  BY AdvancingRun
<1> SUFFICES ASSUME NEW c \in Character, {c} \notin met
             PROVE  /\ \A h, i \in History(c)' : h < i =>
                          /\ log'[h].seq < log'[i].seq
                          /\ log'[i].seq = log'[h].seq + 1 => log'[i].before = log'[h].after
                    /\ \A q \in Advancing' : job'[q].who = c =>
                          /\ job'[q].doing # "advance" => History(c)' = {}
                          /\ \A h \in History(c)' :
                                /\ log'[h].seq < job'[q].seq
                                /\ job'[q].seq = log'[h].seq + 1 =>
                                      job'[q].hours = log'[h].after
  BY <1>h DEF Counted
<1>3. /\ \A h, i \in History(c) : h < i =>
            /\ log[h].seq < log[i].seq
            /\ log[i].seq = log[h].seq + 1 => log[i].before = log[h].after
      /\ \A q \in Advancing : job[q].who = c =>
            /\ job[q].doing # "advance" => History(c) = {}
            /\ \A h \in History(c) :
                  /\ log[h].seq < job[q].seq
                  /\ job[q].seq = log[h].seq + 1 => job[q].hours = log[h].after
  BY <1>2 DEF Coherent, Counted
<1>4. /\ Moves(line, c) => /\ c = job[p].who /\ line.before = job[p].hours
                           /\ line.seq = job[p].seq
      /\ \A i \in History(c)' :
            \/ i \in History(c) /\ i \in 1..Len(log) /\ log'[i] = log[i]
            \/ ended /\ Moves(line, c) /\ i = Len(log) + 1 /\ log'[i] = line
  BY WritingHistory
<1>5. ASSUME NEW h \in History(c)', NEW i \in History(c)', h < i
      PROVE  /\ log'[h].seq < log'[i].seq
             /\ log'[i].seq = log'[h].seq + 1 => log'[i].before = log'[h].after
  <2>1. h \in History(c) /\ log'[h] = log[h]
    <3>1. i \in 1..Len(log) \/ i = Len(log) + 1
      BY <1>4
    <3>2. h # Len(log) + 1
      BY <1>2, <1>5, <3>1
    <3> QED
      BY <1>4, <3>2
  <2>2. CASE i \in History(c) /\ log'[i] = log[i]
    BY <1>3, <1>5, <2>1, <2>2
  <2>3. CASE Moves(line, c) /\ log'[i] = line
    BY <1>3, <1>4, <2>1, <2>3
  <2> QED
    BY <1>4, <2>2, <2>3
<1>6. ASSUME NEW q \in Advancing', job'[q].who = c
      PROVE  /\ job'[q].doing # "advance" => History(c)' = {}
             /\ \A h \in History(c)' :
                   /\ log'[h].seq < job'[q].seq
                   /\ job'[q].seq = log'[h].seq + 1 => job'[q].hours = log'[h].after
  <2>1. q \in Advancing /\ job[q].who = c
    BY <1>1, <1>6
  <2>2. CASE q # p
    <3>1. {job[p].who, c} \in met
      BY <2>1, <2>2 DEF Coherent, Meeting
    <3>2. ~Moves(line, c)
      BY <1>4, <3>1
    <3>3. \A h \in History(c)' : h \in History(c) /\ log'[h] = log[h]
      BY <1>4, <3>2
    <3>4. job'[q] = job[q]
      BY <1>1, <2>2
    <3> QED
      BY <1>3, <2>1, <3>3, <3>4
  <2>3. CASE q = p
    <3>1. job'[p] = k /\ k # None
      BY <1>1, <2>3
    <3>2. /\ k.doing = "advance" /\ k.seq = job[p].seq + 1 /\ line # Torn
          /\ line.event = IF job[p].doing = "extend" THEN "run.extended"
                                                     ELSE "body.advanced"
          /\ k.hours = IF line.event = "body.advanced" THEN line.after
                                                       ELSE job[p].hours
      BY <1>h, <3>1 DEF Offers
    <3>3. ASSUME NEW h \in History(c)'
          PROVE  /\ log'[h].seq < k.seq
                 /\ k.seq = log'[h].seq + 1 => k.hours = log'[h].after
      <4>1. CASE h \in History(c) /\ log'[h] = log[h]
        <5>1. log[h].seq < job[p].seq /\ job[p].doing = "advance"
          BY <1>3, <2>1, <2>3, <4>1
        <5>2. \E l \in Line : l = log[h] /\ l.event = "body.advanced"
          BY <1>2, <4>1, HistoryIs DEF History
        <5>3. log[h].seq \in Nat
          BY <5>2 DEF Line, Torn, Garbled
        <5>4. log[h].seq < job[p].seq + 1 /\ job[p].seq + 1 # log[h].seq + 1
          BY <1>2, <5>1, <5>3
        <5> QED
          BY <3>2, <4>1, <5>4
      <4>2. CASE Moves(line, c) /\ log'[h] = line
        <5>1. line.seq = job[p].seq /\ line.event = "body.advanced"
          BY <1>4, <4>2 DEF Moves
        <5>2. job[p].seq < job[p].seq + 1
          BY <1>2
        <5> QED
          BY <3>2, <4>2, <5>1, <5>2
      <4> QED
        BY <1>4, <4>1, <4>2
    <3> QED
      BY <2>3, <3>1, <3>2, <3>3
  <2> QED
    BY <2>2, <2>3
<1> QED
  BY <1>5, <1>6

\* Where it runs alone, it has the next number of all.
LEMMA WritingNumbers ==
    ASSUME Coherent, NEW p \in Advancing, NEW line, NEW x, NEW k, Written(p, line, x, k)
    PROVE  Numbered'
<1>1. /\ \A q \in Advancing' : q \in Advancing
      /\ p \in Advancing' => job'[p] = k /\ k # None
  BY WritingKeeps
<1>h. /\ Offers(p, line, k) /\ met' = met /\ job[p].doing \in {"extend", "advance"}
      /\ x \in {Torn, Garbled} /\ (k # None => x = Garbled)
  BY DEF Written
<1>2. /\ log \in Seq(Line) /\ log # None /\ job[p].seq \in Nat
  BY AdvancingRun
<1>n. PICK n \in Nat : n = Len(log)
  BY <1>2
<1> SUFFICES ASSUME met = {} PROVE Numbered'
  BY <1>h DEF Numbered
<1>3. /\ \A q \in Advancing : q = p
      /\ job[p].doing = "advance" => ended
      /\ job[p].doing # "advance" => Readable
  BY RunsAlone
<1>4. /\ DOMAIN log = 1..n
      /\ ended => /\ Len(log') = n + 1 /\ DOMAIN log' = 1..n + 1
                  /\ \A i \in 1..n : log'[i] = log[i]
                  /\ log'[n + 1] = line
      /\ ~ended => /\ Len(log') = n /\ DOMAIN log' = 1..n /\ n \in 1..n
                   /\ \A i \in 1..n : i # n => log'[i] = log[i]
                   /\ log'[n] = x
  BY <1>n, WritingGrows
<1>5. /\ \A i \in 1..n : log[i] \notin {Torn, Garbled} => log[i].seq = NumberAt(i)
      /\ job[p].seq = NumberAt(n + 1)
      /\ \A i \in 1..n : log[i] # Torn
      /\ \A h, i \in 1..n : log[h] = Garbled /\ h < i =>
            log[i].event = "body.advanced" /\ log[i].who = job[p].who
  BY <1>h, <1>n, <1>2, <1>4 DEF Coherent, Numbered
<1>6. \A i : RunOnBefore(i) <=> \E h \in 1..n : h < i /\ log[h] = Garbled
  BY <1>4 DEF RunOnBefore
<1>7. job[p].doing # "advance" => \A i \in 1..n : log[i] # Garbled
  BY <1>3, <1>4 DEF Readable
<1>8. /\ line # Torn => /\ line.seq = job[p].seq /\ line # Garbled
                        /\ job[p].doing = "advance" =>
                              line.event = "body.advanced" /\ line.who = job[p].who
      /\ k # None => k.doing = "advance" /\ k.seq = job[p].seq + 1 /\ line # Torn
                     /\ k.who = job[p].who
  BY <1>h DEF Offers
<1>9. CASE ended
  <2>1. 1..n + 1 = (1..n) \cup {n + 1} /\ n + 1 \notin 1..n
    OBVIOUS
  <2>2. line # Garbled
    BY <1>8 DEF Torn, Garbled
  <2>3. \A i : RunOnBefore(i)' <=> RunOnBefore(i)
    <3>1. \A i : RunOnBefore(i)' <=> \E h \in 1..n + 1 : h < i /\ log'[h] = Garbled
      BY <1>4, <1>9 DEF RunOnBefore
    <3> QED
      BY <1>4, <1>6, <1>9, <2>1, <2>2, <3>1
  <2>4. \A i : NumberAt(i)' = NumberAt(i)
    BY <2>3 DEF NumberAt
  <2>5. ASSUME NEW i \in 1..n + 1, log'[i] \notin {Torn, Garbled}
        PROVE  log'[i].seq = NumberAt(i)
    <3>1. CASE i \in 1..n
      BY <1>4, <1>5, <1>9, <2>5, <3>1
    <3>2. CASE i = n + 1
      BY <1>4, <1>5, <1>8, <1>9, <2>5, <3>2
    <3> QED
      BY <2>1, <3>1, <3>2
  <2>6. ASSUME NEW h \in 1..n + 1, NEW i \in 1..n + 1, log'[h] = Garbled, h < i
        PROVE  \/ log'[i] = Torn /\ i = n + 1
               \/ log'[i].event = "body.advanced" /\ log'[i].who = job[p].who
    <3>1. h \in 1..n /\ log[h] = Garbled
      BY <1>4, <1>9, <2>1, <2>2, <2>6
    <3>2. job[p].doing = "advance"
      BY <1>7, <3>1
    <3>3. CASE i \in 1..n
      BY <1>4, <1>5, <1>9, <2>6, <3>1, <3>3
    <3>4. CASE i = n + 1
      BY <1>4, <1>8, <1>9, <3>2, <3>4
    <3> QED
      BY <2>1, <3>3, <3>4
  <2>7. ASSUME NEW q \in Advancing'
        PROVE  /\ job'[q].seq = NumberAt(n + 2)
               /\ \A i \in 1..n + 1 : log'[i] # Torn
               /\ job'[q].who = job[p].who
    <3>1. q = p /\ job'[p] = k /\ k # None
      BY <1>1, <1>3
    <3>2. k.seq = NumberAt(n + 1) + 1 /\ k.who = job[p].who /\ line # Torn
      BY <1>5, <1>8, <3>1
    <3>3. RunOnBefore(n + 2) <=> RunOnBefore(n + 1)
      BY <1>6
    <3>4. NumberAt(n + 2) = NumberAt(n + 1) + 1
      BY <3>3 DEF NumberAt
    <3>5. \A i \in 1..n + 1 : log'[i] # Torn
      BY <1>4, <1>5, <1>9, <2>1, <3>2
    <3> QED
      BY <3>1, <3>2, <3>4, <3>5
  <2>8. \A i \in DOMAIN log' : log'[i] \notin {Torn, Garbled} =>
           log'[i].seq = NumberAt(i)'
    BY <1>4, <1>9, <2>4, <2>5
  <2>9. \A h, i \in DOMAIN log' : log'[h] = Garbled /\ h < i =>
           \/ log'[i] = Torn /\ i = Len(log')
           \/ /\ log'[i].event = "body.advanced"
              /\ \A j \in DOMAIN log' : h < j /\ log'[j] # Torn => log'[j].who = log'[i].who
    <3> SUFFICES ASSUME NEW h \in 1..n + 1, NEW i \in 1..n + 1, log'[h] = Garbled, h < i,
                        ~(log'[i] = Torn /\ i = n + 1)
                 PROVE  /\ log'[i].event = "body.advanced"
                        /\ \A j \in 1..n + 1 : h < j /\ log'[j] # Torn =>
                              log'[j].who = log'[i].who
      BY <1>4, <1>9
    <3>1. log'[i].event = "body.advanced" /\ log'[i].who = job[p].who
      BY <2>6
    <3>2. \A j \in 1..n + 1 : h < j /\ log'[j] # Torn => log'[j].who = job[p].who
      BY <2>6
    <3> QED
      BY <3>1, <3>2
  <2>10. \A q \in Advancing' :
            /\ job'[q].doing # "reopen" => job'[q].seq = NumberAt(Len(log) + 1)'
            /\ \A i \in DOMAIN log' : log'[i] # Torn
            /\ \A h, i \in DOMAIN log' : log'[h] = Garbled /\ h < i =>
                  log'[i].event = "body.advanced" /\ log'[i].who = job'[q].who
    <3>1. NumberAt(Len(log) + 1)' = NumberAt(n + 2)
      <4>1. Len(log') + 1 = n + 2
        BY <1>4, <1>9
      <4>2. \A i : i = n + 2 => NumberAt(i)' = NumberAt(n + 2)
        BY <2>4
      <4> QED
        BY <4>1, <4>2 DEF NumberAt, RunOnBefore
    <3> QED
      BY <1>4, <1>9, <2>6, <2>7, <3>1
  <2> QED
    BY <2>8, <2>9, <2>10 DEF Numbered
<1>10. CASE ~ended
  <2>1. job[p].doing # "advance" /\ \A i \in 1..n : log[i] \notin {Torn, Garbled}
    BY <1>3, <1>5, <1>7, <1>10
  <2>2. /\ Len(log') = n /\ DOMAIN log' = 1..n /\ n \in 1..n
        /\ \A i \in 1..n : i # n => log'[i] = log[i] /\ log'[i] \notin {Torn, Garbled}
        /\ log'[n] = x
    BY <1>4, <1>10, <2>1
  <2>3. \A i : RunOnBefore(i)' <=> n < i /\ x = Garbled
    <3>1. \A i : RunOnBefore(i)' <=> \E h \in 1..n : h < i /\ log'[h] = Garbled
      BY <2>2 DEF RunOnBefore
    <3> QED
      BY <2>2, <3>1
  <2>4. \A i \in 1..n : ~RunOnBefore(i) /\ ~RunOnBefore(i)'
    BY <1>6, <2>1, <2>3
  <2>5. \A i \in DOMAIN log' : log'[i] \notin {Torn, Garbled} =>
           log'[i].seq = NumberAt(i)'
    <3>1. \A i \in 1..n : NumberAt(i)' = NumberAt(i)
      BY <2>4 DEF NumberAt
    <3> QED
      BY <1>h, <1>5, <2>1, <2>2, <3>1
  <2>6. \A h, i \in DOMAIN log' : log'[h] = Garbled => ~(h < i)
    BY <2>2
  <2>7. ASSUME NEW q \in Advancing'
        PROVE  job'[q].seq = NumberAt(Len(log) + 1)' /\ x = Garbled
    <3>1. q = p /\ job'[p] = k /\ k # None /\ x = Garbled
      BY <1>1, <1>3, <1>h
    <3>2. job[p].seq = n
      <4>1. ~RunOnBefore(n + 1)
        BY <1>6, <2>1
      <4> QED
        BY <1>5, <4>1 DEF NumberAt
    <3>3. NumberAt(Len(log) + 1)' = n + 1
      <4>1. RunOnBefore(Len(log) + 1)'
        <5>1. n \in DOMAIN log' /\ n < Len(log') + 1 /\ log'[n] = Garbled
          BY <2>2, <3>1
        <5> QED
          BY <5>1 DEF RunOnBefore
      <4> QED
        BY <2>2, <4>1 DEF NumberAt
    <3> QED
      BY <1>8, <3>1, <3>2, <3>3
  <2>8. \A q \in Advancing' : \A i \in DOMAIN log' : log'[i] # Torn
    <3>1. Torn # Garbled
      BY DEF Torn, Garbled
    <3> QED
      BY <2>2, <2>7, <3>1
  <2> QED
    BY <2>5, <2>6, <2>7, <2>8 DEF Numbered
<1> QED
  BY <1>9, <1>10

LEMMA WritingIsCoherent ==
    ASSUME Coherent, NEW p \in Advancing, NEW line, NEW x, NEW k, Written(p, line, x, k)
    PROVE  Coherent'
BY WritingKeeps, WritingTells, WritingCounts, WritingNumbers DEF Coherent


--------------------------------------------------------------------------------
(* The steps of a seed.                                                    *)

SeedCommand == [doing : {"create", "seed", "save"}, meta : RunMetadata, seq : Nat]

LEMMA SeedingCommand ==
    ASSUME Typed, NEW p \in Process, job[p] # None,
           job[p].doing \in {"create", "seed", "save"}
    PROVE  /\ job[p] \in SeedCommand
           /\ job[p].meta \in RunMetadata /\ job[p].seq \in Nat
<1>1. job[p] \in Command
  BY DEF Typed
<1>2. job[p] \in SeedCommand
  BY <1>1 DEF Command, SeedCommand
<1> QED
  BY <1>2 DEF SeedCommand

\* While there is no snapshot to read, no body is advanced.
LEMMA BeforeSnapshot ==
    ASSUME snapshot' \notin RunMetadata, Advancing' = {},
           log' # None => \A i \in DOMAIN log' :
               log'[i].event \notin {"run.extended", "body.advanced"}
    PROVE  Attested' /\ Meeting' /\ Unbroken' /\ Told' /\ Counted'
<1>1. Attested'
  BY DEF Attested
<1>2. Meeting' /\ Unbroken'
  BY DEF Meeting, Unbroken
<1>3. log' # None => \A c : History(c)' = {}
  BY DEF History
<1>4. Told' /\ Counted'
  BY <1>3 DEF Told, Counted
<1> QED
  BY <1>1, <1>2, <1>4

\* Where no advance can be, and no command of this step is one.
LEMMA NoneAdvances ==
    ASSUME Coherent, snapshot \notin RunMetadata, NEW p \in Process, NEW k,
           job' = [job EXCEPT ![p] = k],
           k = None \/ k.doing \notin {"reopen", "extend", "advance"}
    PROVE  /\ Advancing = {} /\ Advancing' = {}
           /\ log # None => \A i \in DOMAIN log :
                 log[i].event \notin {"run.extended", "body.advanced"}
<1>1. Advancing = {} /\ (log # None => \A i \in DOMAIN log :
          log[i].event \notin {"run.extended", "body.advanced"})
  BY DEF Coherent, Attested
<1>2. Advancing' = {}
  <2>1. Typed
    BY DEF Coherent
  <2>2. Advancing' \subseteq Process
    BY DEF Advancing
  <2> QED
    BY <1>1, <2>1, <2>2, OneCommand
<1> QED
  BY <1>1, <1>2

\* While none is, the lines are numbered from the first.
LEMMA NumberedFromOne ==
    ASSUME Advancing' = {},
           \A i \in DOMAIN log' : log'[i] # Garbled
                                 /\ (log'[i] # Torn => log'[i].seq = i - 1)
    PROVE  Numbered'
<1>1. \A i : ~RunOnBefore(i)'
  BY DEF RunOnBefore
<1>2. \A i : NumberAt(i)' = i - 1
  BY <1>1 DEF NumberAt
<1> QED
  BY <1>2 DEF Numbered

LEMMA SeedCohortStep ==
    ASSUME Coherent, NEW p \in Process, NEW m \in RunMetadata, SeedCohort(p, m)
    PROVE  Coherent'
<1> DEFINE k == [doing |-> "create", meta |-> m, seq |-> 0]
<1>1. /\ job[p] = None /\ log = None /\ snapshot = None
      /\ job' = [job EXCEPT ![p] = k]
      /\ log' = log /\ ended' = ended /\ snapshot' = snapshot /\ met' = met
  BY DEF SeedCohort
<1>2. /\ k \in SeedCommand /\ k \in Command /\ k # None /\ k.seq = 0
      /\ k.doing = "create"
  <2>1. k \in SeedCommand
    BY DEF SeedCommand
  <2>2. k \in Command
    BY <2>1 DEF SeedCommand, Command
  <2> QED
    BY <2>1, <2>2, NoneAssumption
<1> HIDE DEF k
<1>3. snapshot \notin RunMetadata
  BY <1>1, MetadataTyped
<1>4. Attested' /\ Meeting' /\ Unbroken' /\ Told' /\ Counted'
  BY <1>1, <1>2, <1>3, NoneAdvances, BeforeSnapshot
<1>5. Typed'
  BY <1>1, <1>2 DEF Coherent, Typed
<1>6. \A q \in Process : job'[q] # None => job'[q].doing = "create" /\ job'[q].seq = 0
  BY <1>1, <1>2 DEF Coherent, Typed, Unseeded
<1>7. Unseeded' /\ SeedOwns'
  BY <1>1, <1>6 DEF Unseeded, SeedOwns, Seeding
<1>8. Numbered'
  BY <1>1 DEF Numbered
<1> QED
  BY <1>4, <1>5, <1>7, <1>8 DEF Coherent

LEMMA CreateLogStep ==
    ASSUME Coherent, NEW p \in Process, CreateLog(p)
    PROVE  Coherent'
<1>1. job[p] # None /\ job[p].doing = "create" /\ snapshot' = snapshot /\ met' = met
  BY DEF CreateLog
<1>2. CASE log # None
  <2>1. Closes(p) /\ log' = log /\ ended' = ended
    BY <1>2 DEF CreateLog, LogMayBeCreated
  <2> QED
    BY <1>1, <2>1, EndKeeps
<1>3. CASE log = None
  <2> DEFINE k == [doing |-> "seed", meta |-> job[p].meta, seq |-> 0]
  <2>1. log = None /\ log' = <<>> /\ ended' = TRUE /\ job' = [job EXCEPT ![p].doing = "seed"]
    BY <1>3 DEF CreateLog, LogMayBeCreated
  <2>2. Typed /\ job[p] \in SeedCommand /\ job[p].seq = 0 /\ job[p].meta \in RunMetadata
    BY <1>1, SeedingCommand DEF Coherent, Unseeded
  <2>3. job' = [job EXCEPT ![p] = k]
    <3>1. [job[p] EXCEPT !.doing = "seed"] = k
      BY <2>2 DEF SeedCommand
    <3>2. job' = [job EXCEPT ![p] = [job[p] EXCEPT !.doing = "seed"]]
      BY <2>1, <2>2 DEF Typed
    <3> QED
      BY <3>1, <3>2
  <2>4. /\ k \in Command /\ k # None /\ k.seq = 0 /\ k.doing = "seed"
        /\ k.meta = job[p].meta
    <3>1. k \in Command
      BY <2>2 DEF Command
    <3> QED
      BY <3>1, NoneAssumption
  <2> HIDE DEF k
  <2>5. snapshot = None /\ snapshot' \notin RunMetadata
    BY <1>1, <2>1, MetadataTyped DEF Coherent, Unseeded
  <2>6. /\ Advancing' = {}
        /\ Attested' /\ Meeting' /\ Unbroken' /\ Told' /\ Counted'
    <3>1. Advancing' = {}
      BY <1>1, <2>3, <2>4, <2>5, NoneAdvances
    <3> QED
      BY <2>1, <2>5, <3>1, BeforeSnapshot
  <2>7. \A q \in Process : q # p => job'[q] = job[q] /\ ~Seeding(q)'
    <3>1. \A q \in Process : ~Seeding(q)
      BY <2>1 DEF Coherent, Unseeded, Seeding
    <3> QED
      BY <2>2, <2>3, <3>1, OneCommand
  <2>8. job'[p] = k
    BY <2>2, <2>3 DEF Typed
  <2>9. Typed'
    <3>1. <<>> \in Seq(Line)
      OBVIOUS
    <3> QED
      BY <1>1, <2>1, <2>2, <2>3, <2>4, <3>1 DEF Typed
  <2>10. Unseeded'
    <3>1. log' # None
      <4>1. <<>> \in Seq(Line)
        OBVIOUS
      <4> QED
        BY <2>1, <4>1, LogIsThere
    <3>2. \A q \in Process : job'[q] # None /\ job'[q].doing = "create" => job'[q].seq = 0
      BY <2>4, <2>7, <2>8 DEF Coherent, Unseeded
    <3> QED
      BY <3>1, <3>2 DEF Unseeded
  <2>11. SeedOwns'
    <3>1. Len(Script(job[p].meta)) \in Nat
      BY <2>2, ScriptIs
    <3>2. Follows(job[p].meta, 0)'
      <4>1. \A m : Len(Script(m)) \in Nat => Follows(m, 0)'
        BY <2>1 DEF Follows
      <4>2. job'[p].meta = job[p].meta
        BY <2>4, <2>8
      <4> QED
        BY <2>1, <3>1, <4>2 DEF Follows
    <3> QED
      BY <1>1, <2>1, <2>4, <2>5, <2>7, <2>8, <3>2 DEF SeedOwns
  <2>12. Numbered'
    BY <2>1, <2>6 DEF Numbered
  <2> QED
    BY <2>6, <2>9, <2>10, <2>11, <2>12 DEF Coherent
<1> QED
  BY <1>2, <1>3

\* A process that seeds: its log, and what is not there yet.
LEMMA SeedingRun ==
    ASSUME Coherent, NEW p \in Process, Seeding(p)
    PROVE  /\ Typed /\ job[p] # None /\ job[p] \in SeedCommand
           /\ job[p].meta \in RunMetadata /\ job[p].seq \in Nat
           /\ log \in Seq(Line) /\ log # None /\ Len(log) = job[p].seq
           /\ snapshot \notin RunMetadata
           /\ job[p].seq <= Len(Script(job[p].meta))
           /\ \A i \in 1..Len(log) : log[i] = Script(job[p].meta)[i]
           /\ \A q \in Process : Seeding(q) => q = p
           /\ Advancing = {} /\ ended
<1>1. /\ Typed /\ job[p] # None /\ job[p].doing \in {"seed", "save"}
  BY DEF Coherent, Seeding
<1>2. job[p] \in SeedCommand /\ job[p].meta \in RunMetadata /\ job[p].seq \in Nat
  BY <1>1, SeedingCommand
<1>3. log \in Seq(Line) /\ log # None
  BY <1>1 DEF Coherent, Unseeded, Typed
<1>4. /\ Len(log) = job[p].seq /\ Follows(job[p].meta, job[p].seq)
      /\ \A q \in Process : Seeding(q) => q = p
      /\ snapshot \in {None, Partial} /\ ended
  BY <1>1 DEF Coherent, SeedOwns
<1>5. snapshot \notin RunMetadata
  BY <1>4, MetadataTyped
<1>6. Advancing = {}
  BY <1>5 DEF Coherent, Attested
<1>7. /\ job[p].seq <= Len(Script(job[p].meta))
      /\ \A i \in 1..Len(log) : log[i] = Script(job[p].meta)[i]
  BY <1>4 DEF Follows
<1> QED
  BY <1>1, <1>2, <1>3, <1>4, <1>5, <1>6, <1>7

\* The line it writes next is the next of its script.
LEMMA SampledIs ==
    ASSUME Coherent, NEW p \in Process, Seeding(p), ~LogIsComplete(p)
    PROVE  /\ Sampled(p) = Script(job[p].meta)[Len(log) + 1]
           /\ Sampled(p) \in Line \ {Torn, Garbled} /\ Sampled(p).seq = Len(log)
           /\ Sampled(p).event \notin {"run.extended", "body.advanced"}
           /\ Len(log) < Len(Script(job[p].meta))
           /\ \A i \in 1..Len(log) :
                 /\ log[i] \notin {Torn, Garbled} /\ log[i].seq = i - 1
                 /\ log[i].event \notin {"run.extended", "body.advanced"}
<1> DEFINE m == job[p].meta
           n == Len(log)
<1>1. /\ m \in RunMetadata /\ log \in Seq(Line) /\ n = job[p].seq /\ job[p].seq \in Nat
      /\ job[p].seq <= Len(Script(m)) /\ \A i \in 1..n : log[i] = Script(m)[i]
  BY SeedingRun
<1>2. /\ Script(m) \in Seq(Line) /\ Len(Script(m)) \in Nat
      /\ \A i \in 1..Len(Script(m)) :
            /\ Script(m)[i] \in Line
            /\ Script(m)[i] \notin {Torn, Garbled} /\ Script(m)[i].seq = i - 1
            /\ Script(m)[i].event \notin {"run.extended", "body.advanced"}
  BY <1>1, ScriptIs
<1>3. job[p].seq # Len(Script(m))
  BY DEF LogIsComplete
<1>4. Sampled(p) = Script(m)[n + 1]
  BY <1>1 DEF Sampled
<1> HIDE DEF m, n
<1>5. n < Len(Script(m)) /\ n + 1 \in 1..Len(Script(m)) /\ (n + 1) - 1 = n
      /\ \A i \in 1..n : i \in 1..Len(Script(m))
  BY <1>1, <1>2, <1>3
<1>6. /\ Sampled(p) \in Line \ {Torn, Garbled} /\ Sampled(p).seq = n
      /\ Sampled(p).event \notin {"run.extended", "body.advanced"}
  BY <1>2, <1>4, <1>5
<1>7. \A i \in 1..n : /\ log[i] \notin {Torn, Garbled} /\ log[i].seq = i - 1
                      /\ log[i].event \notin {"run.extended", "body.advanced"}
  BY <1>1, <1>2, <1>5
<1> QED
  BY <1>4, <1>5, <1>6, <1>7 DEF m, n

LEMMA SeedCharacterStep ==
    ASSUME Coherent, NEW p \in Process, SeedCharacter(p)
    PROVE  Coherent'
<1> DEFINE m == job[p].meta
           n == job[p].seq
           k == [doing |-> "seed", meta |-> job[p].meta, seq |-> job[p].seq + 1]
<1>1. /\ job[p] # None /\ job[p].doing = "seed" /\ ~LogIsComplete(p)
      /\ Writes(Sampled(p))
      /\ job' = [job EXCEPT ![p].seq = @ + 1]
      /\ snapshot' = snapshot /\ met' = met
  BY DEF SeedCharacter
<1>2. Seeding(p)
  BY <1>1 DEF Seeding
<1>3. /\ Typed /\ job[p] \in SeedCommand /\ m \in RunMetadata /\ n \in Nat
      /\ log \in Seq(Line) /\ log # None /\ Len(log) = n
      /\ snapshot \notin RunMetadata /\ ended
      /\ \A i \in 1..n : log[i] = Script(m)[i]
      /\ \A q \in Process : Seeding(q) => q = p
  BY <1>2, SeedingRun
<1>4. /\ Len(Script(m)) \in Nat /\ n < Len(Script(m))
      /\ \A i \in 1..Len(Script(m)) :
            /\ Script(m)[i] \notin {Torn, Garbled} /\ Script(m)[i].seq = i - 1
            /\ Script(m)[i].event \notin {"run.extended", "body.advanced"}
  BY <1>1, <1>2, <1>3, ScriptIs, SampledIs
<1>5. Sampled(p) = Script(m)[n + 1] /\ Sampled(p) \in Line
  BY <1>1, <1>2, <1>3, SampledIs
<1>6. job' = [job EXCEPT ![p] = k]
  <2>1. [job[p] EXCEPT !.seq = @ + 1] = k
    BY <1>1, <1>3 DEF SeedCommand
  <2>2. job' = [job EXCEPT ![p] = [job[p] EXCEPT !.seq = @ + 1]]
    BY <1>1, <1>3 DEF Typed
  <2> QED
    BY <2>1, <2>2
<1>7. /\ k \in Command /\ k # None /\ k.seq = n + 1 /\ k.doing = "seed" /\ k.meta = m
  <2>1. k \in Command
    BY <1>3 DEF Command
  <2> QED
    BY <2>1, NoneAssumption
<1> HIDE DEF k
<1>8. /\ log' \in Seq(Line) /\ Len(log') = n + 1 /\ DOMAIN log' = 1..n + 1
      /\ \A i \in 1..n + 1 : log'[i] = Script(m)[i]
  <2>1. log' = Append(log, Sampled(p))
    BY <1>1, <1>3 DEF Writes, Appended
  <2>2. 1..n + 1 = (1..n) \cup {n + 1}
    BY <1>3
  <2> QED
    BY <1>3, <1>5, <2>1, <2>2, Grown
<1>9. \A i \in 1..n + 1 : i \in 1..Len(Script(m))
  BY <1>3, <1>4
<1>10. Advancing' = {}
  BY <1>3, <1>6, <1>7, NoneAdvances
<1>11. Attested' /\ Meeting' /\ Unbroken' /\ Told' /\ Counted'
  BY <1>1, <1>3, <1>4, <1>8, <1>9, <1>10, BeforeSnapshot
<1>12. job'[p] = k /\ \A q \in Process : q # p => job'[q] = job[q] /\ ~Seeding(q)'
  BY <1>3, <1>6, OneCommand
<1>e. ended' = TRUE
  BY <1>1 DEF Writes
<1>13. Typed'
  BY <1>1, <1>3, <1>6, <1>7, <1>8, <1>e DEF Typed, Coherent
<1>14. Unseeded'
  <2>1. \A q \in Process : job'[q] # None /\ job'[q].doing = "create" => job'[q].seq = 0
    BY <1>7, <1>12 DEF Coherent, Unseeded
  <2> QED
    BY <1>8, <2>1, LogIsThere DEF Unseeded
<1>15. SeedOwns'
  <2>1. Follows(job[p].meta, job[p].seq)'
    <3>1. job'[p].meta = m /\ job'[p].seq = n + 1
      BY <1>7, <1>12
    <3>2. /\ n + 1 <= Len(Script(m)) /\ Len(log') >= n + 1
          /\ \A i \in 1..n + 1 : log'[i] = Script(m)[i]
      BY <1>3, <1>4, <1>8
    <3> HIDE DEF m, n
    <3> QED
      BY <3>1, <3>2 DEF Follows
  <2>2. snapshot = None
    BY <1>1, <1>2 DEF Coherent, SeedOwns
  <2> QED
    BY <1>1, <1>7, <1>8, <1>12, <1>e, <2>1, <2>2 DEF SeedOwns
<1>16. Numbered'
  <2>1. \A i \in 1..n + 1 : log'[i] \notin {Torn, Garbled} /\ log'[i].seq = i - 1
    BY <1>4, <1>8, <1>9
  <2> QED
    BY <1>8, <1>10, <2>1, NumberedFromOne
<1> QED
  BY <1>11, <1>13, <1>14, <1>15, <1>16 DEF Coherent

LEMMA CreateSnapshotStep ==
    ASSUME Coherent, NEW p \in Process, CreateSnapshot(p)
    PROVE  Coherent'
<1> DEFINE k == [doing |-> "save", meta |-> job[p].meta, seq |-> job[p].seq]
<1>1. /\ job[p] # None /\ job[p].doing = "seed" /\ LogIsComplete(p)
      /\ snapshot' = Partial /\ log' = log /\ ended' = ended /\ met' = met
      /\ job' = [job EXCEPT ![p].doing = "save"]
  BY DEF CreateSnapshot
<1>2. Seeding(p)
  BY <1>1 DEF Seeding
<1>3. /\ Typed /\ job[p] \in SeedCommand /\ job[p].meta \in RunMetadata
      /\ job[p].seq \in Nat
      /\ log \in Seq(Line) /\ log # None /\ Len(log) = job[p].seq
      /\ snapshot \notin RunMetadata
      /\ \A q \in Process : Seeding(q) => q = p
  BY <1>2, SeedingRun
<1>4. job' = [job EXCEPT ![p] = k]
  <2>1. [job[p] EXCEPT !.doing = "save"] = k
    BY <1>3 DEF SeedCommand
  <2>2. job' = [job EXCEPT ![p] = [job[p] EXCEPT !.doing = "save"]]
    BY <1>1, <1>3 DEF Typed
  <2> QED
    BY <2>1, <2>2
<1>5. /\ k \in Command /\ k # None /\ k.doing = "save"
      /\ k.seq = job[p].seq /\ k.meta = job[p].meta
  <2>1. k \in Command
    BY <1>3 DEF Command
  <2> QED
    BY <2>1, NoneAssumption
<1> HIDE DEF k
<1>6. snapshot' \notin RunMetadata
  BY <1>1, MetadataTyped
<1>7. Attested' /\ Meeting' /\ Unbroken' /\ Told' /\ Counted' /\ Advancing' = {}
  BY <1>1, <1>3, <1>4, <1>5, <1>6, NoneAdvances, BeforeSnapshot
<1>8. job'[p] = k /\ \A q \in Process : q # p => job'[q] = job[q] /\ ~Seeding(q)'
  BY <1>3, <1>4, OneCommand
<1>9. Typed'
  BY <1>1, <1>3, <1>4, <1>5 DEF Typed
<1>10. Unseeded'
  <2>1. \A q \in Process : job'[q] # None /\ job'[q].doing = "create" => job'[q].seq = 0
    BY <1>5, <1>8 DEF Coherent, Unseeded
  <2> QED
    BY <1>1, <1>3, <2>1 DEF Unseeded
<1>11. SeedOwns'
  BY <1>1, <1>2, <1>5, <1>8 DEF SeedOwns, Coherent, Follows, LogIsComplete
<1>12. Numbered'
  BY <1>1, <1>7 DEF Coherent, Numbered, NumberAt, RunOnBefore
<1> QED
  BY <1>7, <1>9, <1>10, <1>11, <1>12 DEF Coherent

LEMMA WriteSnapshotStep ==
    ASSUME Coherent, NEW p \in Process, WriteSnapshot(p)
    PROVE  Coherent'
<1>1. /\ job[p] # None /\ job[p].doing = "save" /\ snapshot' = job[p].meta
      /\ log' = log /\ ended' = ended /\ met' = met
      /\ job' = [job EXCEPT ![p] = None]
  BY DEF WriteSnapshot, Closes
<1>2. Seeding(p)
  BY <1>1 DEF Seeding
<1>3. /\ Typed /\ job[p].meta \in RunMetadata /\ job[p].seq \in Nat
      /\ log \in Seq(Line) /\ log # None /\ Len(log) = job[p].seq
      /\ \A i \in 1..Len(log) : log[i] = Script(job[p].meta)[i]
      /\ snapshot \notin RunMetadata /\ ended
      /\ \A q \in Process : Seeding(q) => q = p
  BY <1>2, SeedingRun
<1>4. job[p].seq = Len(Script(job[p].meta))
  BY <1>1, <1>2 DEF Coherent, SeedOwns, LogIsComplete
<1>5. Advancing' = {} /\ \A i \in DOMAIN log :
         log[i].event \notin {"run.extended", "body.advanced"}
  BY <1>1, <1>3, NoneAdvances
<1>6. \A q \in Process : ~Seeding(q)' /\ (job'[q] = job[q] \/ job'[q] = None)
  BY <1>1, <1>3, OneCommand
<1>7. Typed'
  BY <1>1, <1>3 DEF Typed
<1>8. Unseeded' /\ SeedOwns'
  BY <1>1, <1>3, <1>6 DEF Coherent, Unseeded, SeedOwns
<1>9. Attested'
  <2>1. \A m : m = job[p].meta => Follows(m, Len(Script(m)))'
    BY <1>1, <1>3, <1>4 DEF Follows
  <2>2. \A m, i : i \in DOMAIN log => OfRun(m, log[i])
    BY <1>5 DEF OfRun
  <2>3. Follows(snapshot, Len(Script(snapshot)))'
    BY <1>1, <1>3, <1>4 DEF Follows
  <2>4. \A i \in DOMAIN log' : OfRun(snapshot', log'[i])
    BY <1>1, <2>2
  <2> QED
    BY <1>1, <1>3, <1>5, <2>3, <2>4 DEF Attested, OfRun
<1>10. Meeting' /\ Unbroken'
  BY <1>5 DEF Meeting, Unbroken
<1>11. Told' /\ Counted'
  <2>1. \A c : History(c)' = {}
    BY <1>1, <1>5 DEF History
  <2> QED
    BY <1>5, <2>1 DEF Told, Counted
<1>12. Numbered'
  BY <1>1, <1>5 DEF Coherent, Numbered, NumberAt, RunOnBefore
<1> QED
  BY <1>7, <1>8, <1>9, <1>10, <1>11, <1>12 DEF Coherent

--------------------------------------------------------------------------------
(* The steps of an advance, and a death within a line.                     *)

LEMMA SegmentsTyped ==
    ASSUME NEW night \in Night, NEW days \in Days
    PROVE  Segments(night, days) \in Seq(Nat)
<1> DEFINE day == DaySegments(night)
<1>1. day \in Seq(Nat) /\ Len(day) \in {1, 2}
  <2>1. Day \in Nat /\ night \in 0..Day
    BY HoursAssumption
  <2>2. CASE night \in {0, Day}
    BY <2>1, <2>2 DEF DaySegments
  <2>3. CASE night \notin {0, Day}
    BY <2>1, <2>3 DEF DaySegments
  <2> QED
    BY <2>2, <2>3
<1> HIDE DEF day
<1>2. days \in Nat
  BY HoursAssumption
<1>3. days * Len(day) \in Nat
  BY <1>1, <1>2
<1>4. ASSUME NEW n \in Nat, n = days * Len(day), NEW i \in 1..n
      PROVE  day[((i - 1) % Len(day)) + 1] \in Nat
  <2>1. ((i - 1) % Len(day)) + 1 \in 1..Len(day)
    <3>1. CASE Len(day) = 1
      BY <3>1
    <3>2. CASE Len(day) = 2
      BY <3>2
    <3> QED
      BY <1>1, <3>1, <3>2
  <2> QED
    BY <1>1, <2>1
<1>5. Segments(night, days) =
         [i \in 1..(days * Len(day)) |-> day[((i - 1) % Len(day)) + 1]]
  BY DEF Segments, day
<1>6. PICK n \in Nat : n = days * Len(day)
  BY <1>3
<1>7. Segments(night, days) = [i \in 1..n |-> day[((i - 1) % Len(day)) + 1]]
  BY <1>5, <1>6
<1> QED
  BY <1>4, <1>6, <1>7

LEMMA AdvanceClockStep ==
    ASSUME Coherent, NEW p \in Process, NEW c \in Character, NEW v \in Version,
           NEW night \in Night, NEW days \in Days,
           AdvanceClock(p, c, v, Segments(night, days))
    PROVE  Coherent'
<1> DEFINE segs == Segments(night, days)
           k == [doing |-> "reopen", meta |-> snapshot, seq |-> 0, who |-> c,
                 version |-> v, hours |-> 0, segments |-> segs]
<1>1. /\ job[p] = None /\ snapshot \in RunMetadata
      /\ snapshot.version = v /\ c <= snapshot.count
      /\ Readable /\ ~BodyHasAdvanced(c)
      /\ job' = [job EXCEPT ![p] = k]
      /\ met' = met \cup {{c, job[q].who} : q \in Advancing}
      /\ log' = log /\ ended' = ended /\ snapshot' = snapshot
  BY DEF AdvanceClock
<1>2. segs \in Seq(Nat) \ {<<>>}
  BY SegmentsTyped DEF AdvanceClock
<1> HIDE DEF segs
<1>3. /\ k \in Command /\ k # None /\ k.doing = "reopen" /\ k.meta = snapshot
      /\ k.who = c /\ k.version = v /\ k.hours = 0
  <2>1. k \in Command
    BY <1>1, <1>2 DEF Command
  <2> QED
    BY <2>1, NoneAssumption
<1> HIDE DEF k
<1>4. /\ Typed /\ log # None /\ log \in Seq(Line)
      /\ \A q \in Process : ~Seeding(q)
  <2>1. Typed /\ log # None
    BY <1>1, MetadataTyped DEF Coherent, Unseeded
  <2>2. \A q \in Process : ~Seeding(q)
    BY <1>1, MetadataTyped DEF Coherent, SeedOwns, Seeding
  <2> QED
    BY <2>1, <2>2 DEF Typed
<1>5. /\ job'[p] = k /\ p \notin Advancing
      /\ \A q \in Process : q # p => job'[q] = job[q]
      /\ \A q \in Process : ~Seeding(q)'
      /\ \A q \in Advancing' : q # p => q \in Advancing /\ job'[q] = job[q]
  <2>1. Advancing' \subseteq Process /\ p \notin Advancing
    BY <1>1 DEF Advancing
  <2> QED
    BY <1>1, <1>3, <1>4, <2>1, OneCommand
<1>6. Typed'
  BY <1>1, <1>3, <1>4 DEF Typed
<1>7. Unseeded' /\ SeedOwns'
  BY <1>1, <1>3, <1>4, <1>5 DEF Coherent, Unseeded, SeedOwns
<1>8. Attested'
  <2>1. \A q \in Advancing' : /\ job'[q].meta = snapshot
                              /\ job'[q].version = snapshot.version
                              /\ job'[q].who <= snapshot.count
    BY <1>1, <1>3, <1>5 DEF Coherent, Attested
  <2>2. /\ Follows(snapshot, Len(Script(snapshot)))
        /\ ~ended => Len(log) > Len(Script(snapshot))
        /\ \A i \in DOMAIN log : OfRun(snapshot, log[i])
    BY <1>1 DEF Coherent, Attested
  <2> QED
    BY <1>1, <2>1, <2>2 DEF Attested, Follows, OfRun
<1>9. \A q \in Advancing : {c, job[q].who} \in met'
  BY <1>1
<1>10. met \subseteq met'
  BY <1>1
<1>11. Meeting'
  <2> SUFFICES ASSUME NEW q \in Advancing', NEW r \in Advancing', q # r
               PROVE  {job'[q].who, job'[r].who} \in met'
    BY DEF Meeting
  <2>1. CASE q # p /\ r # p
    BY <1>5, <1>10, <2>1 DEF Coherent, Meeting
  <2>2. CASE q = p
    <3>1. {c, job[r].who} \in met' /\ job'[r] = job[r] /\ job'[q].who = c
      BY <1>3, <1>5, <1>9, <2>2
    <3> QED
      BY <3>1
  <2>3. CASE r = p
    <3>1. {c, job[q].who} \in met' /\ job'[q] = job[q] /\ job'[r].who = c
      BY <1>3, <1>5, <1>9, <2>3
    <3>2. {job[q].who, c} = {c, job[q].who}
      OBVIOUS
    <3> QED
      BY <3>1, <3>2
  <2> QED
    BY <2>1, <2>2, <2>3
<1>12. Unbroken'
  <2>1. Readable'
    BY <1>1, SameLog
  <2>2. ASSUME NEW q \in Advancing'
        PROVE  \/ job'[q].doing = "advance" /\ ended'
               \/ job'[q].doing # "advance" /\ Readable'
               \/ \E d \in Character : {job'[q].who, d} \in met'
    <3>1. CASE q = p
      BY <1>3, <1>5, <2>1, <3>1
    <3>2. CASE q # p
      <4>1. q \in Advancing /\ job'[q] = job[q] /\ ended' = ended
        BY <1>1, <1>5, <3>2
      <4>2. \/ job[q].doing = "advance" /\ ended
            \/ job[q].doing # "advance" /\ Readable
            \/ \E d \in Character : {job[q].who, d} \in met
        BY <4>1 DEF Coherent, Unbroken
      <4> QED
        BY <1>10, <2>1, <4>1, <4>2
    <3> QED
      BY <3>1, <3>2
  <2> QED
    BY <2>2 DEF Unbroken
<1>13. Told'
  <2> SUFFICES ASSUME NEW b \in Character, Undisturbed(b)'
               PROVE  /\ \A i \in History(b)' : log'[i].before = LivedBefore(b, i)'
                      /\ \A q \in Advancing' : job'[q].who = b =>
                            job'[q].hours = LivedBefore(b, Len(log) + 1)'
    BY DEF Told
  <2>1. Undisturbed(b)
    BY <1>1, <1>10, SameLog DEF Undisturbed
  <2>2. /\ \A i \in History(b) : log[i].before = LivedBefore(b, i)
        /\ \A q \in Advancing : job[q].who = b =>
              job[q].hours = LivedBefore(b, Len(log) + 1)
    BY <1>4, <2>1 DEF Coherent, Told
  <2>3. /\ History(b)' = History(b)
        /\ \A i : LivedBefore(b, i)' = LivedBefore(b, i)
        /\ LivedBefore(b, Len(log) + 1)' = LivedBefore(b, Len(log) + 1)
    <3>1. History(b)' = History(b) /\ \A i : LivedBefore(b, i)' = LivedBefore(b, i)
      BY <1>1, SameLog
    <3> QED
      BY <1>1, <3>1
  <2>4. b = c => LivedBefore(b, Len(log) + 1) = 0
    BY <1>1 DEF BodyHasAdvanced, History, LivedBefore
  <2> QED
    BY <1>1, <1>3, <1>5, <2>2, <2>3, <2>4
<1>14. Counted'
  <2> SUFFICES ASSUME NEW b \in Character, {b} \notin met'
               PROVE  /\ \A h, i \in History(b)' : h < i =>
                            /\ log'[h].seq < log'[i].seq
                            /\ log'[i].seq = log'[h].seq + 1 => log'[i].before = log'[h].after
                      /\ \A q \in Advancing' : job'[q].who = b =>
                            /\ job'[q].doing # "advance" => History(b)' = {}
                            /\ \A h \in History(b)' :
                                  /\ log'[h].seq < job'[q].seq
                                  /\ job'[q].seq = log'[h].seq + 1 =>
                                        job'[q].hours = log'[h].after
    BY DEF Counted
  <2>1. {b} \notin met
    BY <1>10
  <2>2. /\ \A h, i \in History(b) : h < i =>
              /\ log[h].seq < log[i].seq
              /\ log[i].seq = log[h].seq + 1 => log[i].before = log[h].after
        /\ \A q \in Advancing : job[q].who = b =>
              /\ job[q].doing # "advance" => History(b) = {}
              /\ \A h \in History(b) :
                    /\ log[h].seq < job[q].seq
                    /\ job[q].seq = log[h].seq + 1 => job[q].hours = log[h].after
    BY <1>4, <2>1 DEF Coherent, Counted
  <2>3. b = c => History(b) = {}
    BY <1>1 DEF BodyHasAdvanced, History
  <2>4. History(b)' = History(b)
    BY <1>1, SameLog
  <2> HIDE DEF History
  <2> QED
    BY <1>1, <1>3, <1>5, <2>2, <2>3, <2>4
<1>15. Numbered'
  <2> SUFFICES ASSUME met' = {} PROVE Numbered'
    BY DEF Numbered
  <2>1. met = {} /\ Advancing = {}
    BY <1>9, <1>10
  <2>2. \A q \in Advancing' : job'[q].doing = "reopen"
    BY <1>3, <1>5, <2>1
  <2>3. \A i : NumberAt(i)' = NumberAt(i)
    BY <1>1, SameLog
  <2>4. \A i \in DOMAIN log : /\ log[i] \notin {Torn, Garbled}
                             /\ log[i].seq = NumberAt(i)
    BY <1>1, <1>4, <2>1 DEF Coherent, Numbered, Readable
  <2> QED
    BY <1>1, <2>2, <2>3, <2>4 DEF Numbered
<1> QED
  BY <1>6, <1>7, <1>8, <1>11, <1>12, <1>13, <1>14, <1>15 DEF Coherent

\* The commands of an advance, field by field.
AdvanceCommand ==
    [doing : {"reopen", "extend", "advance"}, meta : RunMetadata, seq : Nat,
     who : Character, version : Version, hours : Nat, segments : Seq(Nat) \ {<<>>}]

LEMMA NextPhase ==
    ASSUME Typed, NEW p \in Process, job[p] \in AdvanceCommand, NEW d, NEW n,
           job' = [job EXCEPT ![p].doing = d, ![p].seq = n]
    PROVE  job' = [job EXCEPT ![p] =
              [doing |-> d, meta |-> job[p].meta, seq |-> n, who |-> job[p].who,
               version |-> job[p].version, hours |-> job[p].hours,
               segments |-> job[p].segments]]
<1>1. PICK r \in AdvanceCommand : r = job[p]
  OBVIOUS
<1>2. PICK x : x = [r EXCEPT !.doing = d, !.seq = n]
  OBVIOUS
<1>3. x = [doing |-> d, meta |-> r.meta, seq |-> n, who |-> r.who,
           version |-> r.version, hours |-> r.hours, segments |-> r.segments]
  BY <1>2 DEF AdvanceCommand
<1>4. job' = [job EXCEPT ![p] = x]
  BY <1>1, <1>2 DEF Typed
<1> QED
  BY <1>1, <1>3, <1>4

LEMMA NextMove ==
    ASSUME Typed, NEW p \in Process, job[p] \in AdvanceCommand, NEW h,
           job' = [job EXCEPT ![p].seq = @ + 1, ![p].hours = h, ![p].segments = Tail(@)]
    PROVE  job' = [job EXCEPT ![p] =
              [doing |-> job[p].doing, meta |-> job[p].meta, seq |-> job[p].seq + 1,
               who |-> job[p].who, version |-> job[p].version, hours |-> h,
               segments |-> Tail(job[p].segments)]]
<1>1. PICK r \in AdvanceCommand : r = job[p]
  OBVIOUS
<1>2. PICK n, g, x : /\ n = r.seq + 1 /\ g = Tail(r.segments)
                     /\ x = [r EXCEPT !.seq = n, !.hours = h, !.segments = g]
  OBVIOUS
<1>3. x = [doing |-> r.doing, meta |-> r.meta, seq |-> n, who |-> r.who,
           version |-> r.version, hours |-> h, segments |-> g]
  BY <1>2 DEF AdvanceCommand
<1>4. job' = [job EXCEPT ![p] = x]
  BY <1>1, <1>2 DEF Typed
<1> QED
  BY <1>1, <1>2, <1>3, <1>4

LEMMA ReadOpeningStep ==
    ASSUME Coherent, NEW p \in Process, ReadOpening(p)
    PROVE  Coherent'
<1>1. /\ job[p] # None /\ job[p].doing = "reopen" /\ snapshot' = snapshot /\ met' = met
  BY DEF ReadOpening
<1>2. CASE ~(Readable /\ SameRun(job[p].meta))
  <2>1. Closes(p) /\ log' = log /\ ended' = ended
    BY <1>2 DEF ReadOpening
  <2> QED
    BY <1>1, <2>1, EndKeeps
<1>3. CASE Readable /\ SameRun(job[p].meta)
  <2> DEFINE j == job[p]
             k == [doing |-> "extend", meta |-> j.meta, seq |-> Last(log).seq + 1,
                   who |-> j.who, version |-> j.version, hours |-> j.hours,
                   segments |-> j.segments]
  <2>1. /\ Readable /\ log # <<>> /\ log' = log /\ ended' = ended
        /\ job' = [job EXCEPT ![p].doing = "extend", ![p].seq = Last(log).seq + 1]
    BY <1>3 DEF ReadOpening, SameRun, NextNumber
  <2>2. p \in Advancing /\ Typed
    BY <1>1 DEF Advancing, Coherent
  <2>3. log \in Seq(Line) /\ log # None
    BY <2>2, AdvancingRun
  <2>4. /\ Len(log) \in Nat \ {0} /\ Len(log) \in DOMAIN log
        /\ Last(log) = log[Len(log)] /\ Last(log).seq \in Nat
    <3>1. Len(log) \in Nat \ {0} /\ Len(log) \in DOMAIN log /\ log[Len(log)] \in Line
      BY <2>1, <2>3
    <3>2. log[Len(log)] \notin {Torn, Garbled}
      BY <2>1, <3>1 DEF Readable
    <3>3. log[Len(log)].seq \in Nat
      BY <3>1, <3>2 DEF Line
    <3> QED
      BY <3>1, <3>3 DEF Last
  <2>5. /\ j \in [doing : {"reopen", "extend", "advance"},
                  meta : RunMetadata, seq : Nat, who : Character,
                  version : Version, hours : Nat, segments : Seq(Nat) \ {<<>>}]
        /\ p \in Process
    BY <2>2, AdvancingCommand
  <2>6. job' = [job EXCEPT ![p] = k]
    <3>1. job[p] \in AdvanceCommand
      BY <2>5 DEF AdvanceCommand
    <3>2. PICK d, n : d = "extend" /\ n = Last(log).seq + 1
      OBVIOUS
    <3>3. job' = [job EXCEPT ![p].doing = d, ![p].seq = n]
      BY <2>1, <3>2
    <3> HIDE DEF j, k
    <3>5. Typed /\ p \in Process
      BY <2>2, <2>5
    <3>4. job' = [job EXCEPT ![p] =
             [doing |-> d, meta |-> job[p].meta, seq |-> n, who |-> job[p].who,
              version |-> job[p].version, hours |-> job[p].hours,
              segments |-> job[p].segments]]
      BY <3>1, <3>3, <3>5, NextPhase, Zenon
    <3> QED
      BY <3>2, <3>4 DEF j, k
  <2>7. /\ k \in Command /\ k # None /\ k.doing = "extend" /\ k.meta = j.meta
        /\ k.who = j.who /\ k.version = j.version /\ k.hours = j.hours
        /\ k.seq = Last(log).seq + 1
    <3>1. k \in Command
      BY <2>4, <2>5 DEF Command
    <3> QED
      BY <3>1, NoneAssumption
  <2> HIDE DEF k, j
  <2>8. /\ job'[p] = k /\ \A q \in Process : q # p => job'[q] = job[q]
        /\ \A q \in Process : Seeding(q)' => q # p /\ Seeding(q)
        /\ \A q \in Advancing' : q \in Advancing
        /\ \A q \in Advancing' : q # p => job'[q] = job[q]
    <3>1. Advancing' \subseteq Process
      BY DEF Advancing
    <3>2. /\ job'[p] = k
          /\ \A q \in Process : q # p =>
                /\ job'[q] = job[q]
                /\ q \in Advancing' <=> q \in Advancing
                /\ Seeding(q)' <=> Seeding(q)
          /\ Seeding(p)' <=> k # None /\ k.doing \in {"seed", "save"}
      BY <2>2, <2>5, <2>6, OneCommand
    <3> QED
      BY <2>2, <2>7, <3>1, <3>2
  <2>9. \A q \in Advancing' :
           /\ job'[q].who = job[q].who /\ job'[q].meta = job[q].meta
           /\ job'[q].version = job[q].version /\ job'[q].hours = job[q].hours
    BY <2>7, <2>8 DEF j
  <2>10. Typed'
    BY <1>1, <2>1, <2>2, <2>3, <2>6, <2>7 DEF Typed
  <2>11. Unseeded'
    BY <2>1, <2>3, <2>7, <2>8 DEF Coherent, Unseeded
  <2>12. SeedOwns'
    BY <2>2, <2>8, AdvancingRun DEF SeedOwns, Seeding
  <2>13. Attested'
    <3>1. snapshot \in RunMetadata
      BY <2>2, AdvancingRun
    <3>2. /\ Follows(snapshot, Len(Script(snapshot)))
          /\ ~ended => Len(log) > Len(Script(snapshot))
          /\ \A i \in DOMAIN log : OfRun(snapshot, log[i])
          /\ \A q \in Advancing :
                /\ job[q].meta = snapshot /\ job[q].version = snapshot.version
                /\ job[q].who <= snapshot.count
      BY <3>1 DEF Coherent, Attested
    <3>3. Follows(snapshot, Len(Script(snapshot)))'
      BY <1>1, <2>1, <3>2 DEF Follows, Script
    <3>4. \A i \in DOMAIN log : OfRun(snapshot, log[i])'
      BY <1>1, <2>1, <3>2 DEF OfRun
    <3>5. \A q \in Advancing' :
             /\ job'[q].meta = snapshot /\ job'[q].version = snapshot.version
             /\ job'[q].who <= snapshot.count
      BY <2>8, <2>9, <3>2
    <3> QED
      BY <1>1, <2>1, <3>1, <3>2, <3>3, <3>4, <3>5 DEF Attested
  <2>14. Meeting'
    <3> SUFFICES ASSUME NEW q \in Advancing', NEW r \in Advancing', q # r
                 PROVE  {job'[q].who, job'[r].who} \in met
      BY <1>1 DEF Meeting
    <3>1. {job[q].who, job[r].who} \in met
      BY <2>8 DEF Coherent, Meeting
    <3> QED
      BY <2>9, <3>1
  <2>15. Unbroken'
    <3>1. Readable'
      BY <2>1, SameLog
    <3>2. ASSUME NEW q \in Advancing'
          PROVE  \/ job'[q].doing = "advance" /\ ended'
                 \/ job'[q].doing # "advance" /\ Readable'
                 \/ \E d \in Character : {job'[q].who, d} \in met'
      <4>1. CASE q = p
        BY <2>7, <2>8, <3>1, <4>1
      <4>2. CASE q # p
        <5>1. q \in Advancing /\ job'[q] = job[q] /\ ended' = ended /\ met' = met
          BY <1>1, <2>1, <2>8, <4>2
        <5>2. \/ job[q].doing = "advance" /\ ended
              \/ job[q].doing # "advance" /\ Readable
              \/ \E d \in Character : {job[q].who, d} \in met
          BY <5>1 DEF Coherent, Unbroken
        <5> QED
          BY <3>1, <5>1, <5>2
      <4> QED
        BY <4>1, <4>2
    <3> QED
      BY <3>2 DEF Unbroken
  <2>16. Told'
    <3>1. \A c : Undisturbed(c)' <=> Undisturbed(c)
      BY <1>1, <2>1, SameLog DEF Undisturbed
    <3>2. \A c, i : History(c)' = History(c) /\ LivedBefore(c, i)' = LivedBefore(c, i)
      BY <2>1, SameLog
    <3> SUFFICES ASSUME NEW c \in Character, Undisturbed(c)
                 PROVE  /\ \A i \in History(c) : log[i].before = LivedBefore(c, i)
                        /\ \A q \in Advancing' : job'[q].who = c =>
                              job'[q].hours = LivedBefore(c, Len(log) + 1)
      BY <2>1, <3>1, <3>2 DEF Told
    <3>3. /\ \A i \in History(c) : log[i].before = LivedBefore(c, i)
          /\ \A q \in Advancing : job[q].who = c =>
                job[q].hours = LivedBefore(c, Len(log) + 1)
      BY <2>3 DEF Coherent, Told
    <3> QED
      BY <2>8, <2>9, <3>3
  <2>17. Counted'
    <3> SUFFICES ASSUME NEW c \in Character, {c} \notin met
                 PROVE  /\ \A h, i \in History(c)' : h < i =>
                              /\ log'[h].seq < log'[i].seq
                              /\ log'[i].seq = log'[h].seq + 1 =>
                                    log'[i].before = log'[h].after
                        /\ \A q \in Advancing' : job'[q].who = c =>
                              /\ job'[q].doing # "advance" => History(c)' = {}
                              /\ \A h \in History(c)' :
                                    /\ log'[h].seq < job'[q].seq
                                    /\ job'[q].seq = log'[h].seq + 1 =>
                                          job'[q].hours = log'[h].after
      BY <1>1 DEF Counted
    <3>1. History(c)' = History(c)
      BY <2>1, SameLog
    <3>2. /\ \A h, i \in History(c) : h < i =>
                /\ log[h].seq < log[i].seq
                /\ log[i].seq = log[h].seq + 1 => log[i].before = log[h].after
          /\ \A q \in Advancing : job[q].who = c =>
                /\ job[q].doing # "advance" => History(c) = {}
                /\ \A h \in History(c) :
                      /\ log[h].seq < job[q].seq
                      /\ job[q].seq = log[h].seq + 1 => job[q].hours = log[h].after
      BY <2>3 DEF Coherent, Counted
    <3>3. job[p].who = c => History(c) = {}
      BY <1>1, <2>2, NothingMoved
    <3> HIDE DEF History
    <3>4. ASSUME NEW q \in Advancing', job'[q].who = c
          PROVE  /\ job'[q].doing # "advance" => History(c) = {}
                 /\ \A h \in History(c) :
                       /\ log[h].seq < job'[q].seq
                       /\ job'[q].seq = log[h].seq + 1 => job'[q].hours = log[h].after
      <4>1. q \in Advancing /\ job[q].who = c
        BY <2>8, <2>9, <3>4
      <4>2. CASE q = p
        BY <3>3, <4>1, <4>2
      <4>3. CASE q # p
        BY <2>8, <3>2, <4>1, <4>3
      <4> QED
        BY <4>2, <4>3
    <3> QED
      BY <2>1, <3>1, <3>2, <3>4
  <2>18. Numbered'
    <3> SUFFICES ASSUME met = {} PROVE Numbered'
      BY <1>1 DEF Numbered
    <3>1. \A q \in Advancing : q = p
      BY <2>2, RunsAlone
    <3>2. \A i \in DOMAIN log : /\ log[i] \notin {Torn, Garbled}
                               /\ log[i].seq = NumberAt(i)
      BY <2>1, <2>3 DEF Coherent, Numbered, Readable
    <3>3. \A i : NumberAt(i)' = NumberAt(i) /\ NumberAt(i) = i - 1
      BY <2>1, <3>2, SameLog DEF NumberAt, RunOnBefore
    <3>4. NumberAt(Len(log) + 1)' = Len(log)
      <4>1. PICK n \in Nat : n = Len(log)
        BY <2>4
      <4>2. \A i : i = n + 1 => NumberAt(i)' = n
        BY <3>3
      <4>3. Len(log') + 1 = n + 1
        BY <2>1, <4>1
      <4>4. ~\E h \in DOMAIN log' : log'[h] = Garbled
        BY <2>1, <3>2
      <4> QED
        BY <4>1, <4>3, <4>4 DEF NumberAt, RunOnBefore
    <3>5. k.seq = Len(log)
      <4>1. Last(log).seq = Len(log) - 1
        BY <2>4, <3>2, <3>3
      <4> QED
        BY <2>4, <2>7, <4>1
    <3>6. \A q \in Advancing' : job'[q].seq = NumberAt(Len(log) + 1)'
      BY <2>8, <3>1, <3>4, <3>5
    <3> QED
      BY <2>1, <3>2, <3>3, <3>6 DEF Numbered
  <2> QED
    BY <2>10, <2>11, <2>12, <2>13, <2>14, <2>15, <2>16, <2>17, <2>18 DEF Coherent
<1> QED
  BY <1>2, <1>3

\* The command an advance goes on with after it opened its phase, after a move.
Opened(p) ==
    [doing |-> "advance", meta |-> job[p].meta, seq |-> job[p].seq + 1,
     who |-> job[p].who, version |-> job[p].version, hours |-> job[p].hours,
     segments |-> job[p].segments]

GoneOn(p) ==
    [doing |-> "advance", meta |-> job[p].meta, seq |-> job[p].seq + 1,
     who |-> job[p].who, version |-> job[p].version, hours |-> After(p),
     segments |-> Tail(job[p].segments)]

LEMMA ExtensionOffered ==
    ASSUME Coherent, NEW p \in Advancing, job[p].doing = "extend"
    PROVE  Offers(p, Extension(p), None) /\ Offers(p, Extension(p), Opened(p))
<1> DEFINE line == Extension(p)
           k == Opened(p)
<1>1. /\ job[p] \in AdvanceCommand /\ job[p].meta = snapshot
      /\ job[p].seq \in Nat /\ snapshot \in RunMetadata
  BY AdvancingRun, AdvancingCommand DEF AdvanceCommand
<1>2. /\ line \in Line /\ line \notin {Torn, Garbled} /\ line.seq = job[p].seq
      /\ line.event = "run.extended" /\ OfRun(snapshot, line)
  BY <1>1 DEF Extension, Line, Torn, Garbled, OfRun
<1>3. /\ k \in Command /\ k.doing = "advance" /\ k.meta = job[p].meta
      /\ k.version = job[p].version /\ k.who = job[p].who
      /\ k.seq = job[p].seq + 1 /\ k.hours = job[p].hours
  BY <1>1 DEF Opened, AdvanceCommand, Command
<1> HIDE DEF line, k
<1>4. Offers(p, line, None) /\ Offers(p, line, k)
  BY <1>2, <1>3 DEF Offers
<1> QED
  BY <1>4 DEF line, k

LEMMA TailLeft ==
    ASSUME NEW s \in Seq(Nat), Len(s) > 1
    PROVE  Tail(s) \in Seq(Nat) /\ Tail(s) # <<>>
<1>1. PICK n \in Nat : n = Len(s)
  OBVIOUS
<1>2. n > 1 /\ s # <<>>
  BY <1>1
<1>3. PICK k \in Nat : k = n - 1 /\ k > 0
  <2>1. n - 1 \in Nat /\ n - 1 > 0
    BY <1>2
  <2> QED
    BY <2>1
<1>4. Tail(s) \in Seq(Nat) /\ Len(Tail(s)) = k
  BY <1>1, <1>2, <1>3, HeadTailProperties
<1>5. PICK u \in Seq(Nat) : u = Tail(s) /\ Len(u) = k
  BY <1>4
<1>6. u # <<>>
  <2>1. Len(u) = k
    BY <1>5
  <2>2. Len(u) # 0
    BY <1>3, <2>1
  <2> QED
    BY <2>2, EmptySeq
<1> QED
  BY <1>5, <1>6

LEMMA MoveOffered ==
    ASSUME Coherent, NEW p \in Advancing, job[p].doing = "advance"
    PROVE  /\ Offers(p, Moved(p), None)
           /\ Len(job[p].segments) > 1 => Offers(p, Moved(p), GoneOn(p))
<1> DEFINE line == Moved(p)
           k == GoneOn(p)
<1>1. /\ job[p] \in AdvanceCommand /\ job[p].seq \in Nat /\ job[p].hours \in Nat
      /\ job[p].segments \in Seq(Nat) /\ job[p].segments # <<>>
      /\ job[p].version = snapshot.version /\ job[p].who <= snapshot.count
  BY AdvancingRun, AdvancingCommand DEF AdvanceCommand
<1>2. After(p) \in Nat
  <2>1. Head(job[p].segments) \in Nat
    BY <1>1, HeadTailProperties
  <2> QED
    BY <1>1, <2>1 DEF After
<1>3. /\ line \in Line /\ line \notin {Torn, Garbled} /\ line.seq = job[p].seq
      /\ line.event = "body.advanced" /\ line.who = job[p].who
      /\ line.before = job[p].hours /\ line.after = After(p) /\ OfRun(snapshot, line)
  <2>1. line \in Line
    BY <1>1, <1>2 DEF Moved, Line, AdvanceCommand
  <2> QED
    BY <1>1, <2>1 DEF Moved, Torn, Garbled, OfRun
<1>4. Len(job[p].segments) > 1 =>
         /\ k \in Command /\ k.doing = "advance" /\ k.meta = job[p].meta
         /\ k.version = job[p].version /\ k.who = job[p].who
         /\ k.seq = job[p].seq + 1 /\ k.hours = After(p)
  <2> SUFFICES ASSUME Len(job[p].segments) > 1
               PROVE  /\ k \in Command /\ k.doing = "advance" /\ k.meta = job[p].meta
                      /\ k.version = job[p].version /\ k.who = job[p].who
                      /\ k.seq = job[p].seq + 1 /\ k.hours = After(p)
    OBVIOUS
  <2>1. PICK s \in Seq(Nat) : s = job[p].segments /\ Len(s) > 1
    BY <1>1
  <2>2. Tail(s) \in Seq(Nat) /\ Tail(s) # <<>>
    BY <2>1, TailLeft
  <2>3. Tail(job[p].segments) \in Seq(Nat) \ {<<>>}
    BY <2>1, <2>2
  <2>4. k \in Command
    BY <1>1, <1>2, <2>3 DEF GoneOn, AdvanceCommand, Command
  <2> QED
    BY <2>4 DEF GoneOn
<1> HIDE DEF line, k
<1>5. /\ Offers(p, line, None)
      /\ Len(job[p].segments) > 1 => Offers(p, line, k)
  BY <1>3, <1>4 DEF Offers
<1> QED
  BY <1>5 DEF line, k

LEMMA ExtendLogStep ==
    ASSUME Coherent, NEW p \in Process, ExtendLog(p)
    PROVE  Coherent'
<1>1. /\ job[p] # None /\ job[p].doing = "extend"
      /\ log' = Appended(Extension(p)) /\ ended' = TRUE
      /\ job' = [job EXCEPT ![p].doing = "advance", ![p].seq = @ + 1]
      /\ snapshot' = snapshot /\ met' = met
  BY DEF ExtendLog, Writes
<1>2. p \in Advancing /\ Typed
  BY <1>1 DEF Advancing, Coherent
<1>3. job' = [job EXCEPT ![p] = Opened(p)]
  <2>1. job[p] \in AdvanceCommand
    BY <1>2, AdvancingCommand DEF AdvanceCommand
  <2>2. PICK d, n : d = "advance" /\ n = job[p].seq + 1
    OBVIOUS
  <2>3. job' = [job EXCEPT ![p].doing = d, ![p].seq = n]
    BY <1>1, <2>2
  <2>4. job' = [job EXCEPT ![p] =
           [doing |-> d, meta |-> job[p].meta, seq |-> n, who |-> job[p].who,
            version |-> job[p].version, hours |-> job[p].hours,
            segments |-> job[p].segments]]
    BY <1>2, <2>1, <2>3, NextPhase
  <2> QED
    BY <2>2, <2>4 DEF Opened
<1>4. Offers(p, Extension(p), Opened(p))
  BY <1>1, <1>2, ExtensionOffered
<1>5. Written(p, Extension(p), Garbled, Opened(p))
  BY <1>1, <1>3, <1>4 DEF Written, Appended
<1> QED
  BY <1>2, <1>5, WritingIsCoherent

LEMMA AdvanceStep ==
    ASSUME Coherent, NEW p \in Process, Advance(p)
    PROVE  Coherent'
<1>1. job[p] # None /\ job[p].doing = "advance" /\ snapshot' = snapshot /\ met' = met
  BY DEF Advance
<1>2. p \in Advancing /\ Typed
  BY <1>1 DEF Advancing, Coherent
<1>3. CASE Closes(p) /\ UNCHANGED <<log, ended>>
  BY <1>1, <1>3, EndKeeps
<1>4. CASE Writes(Moved(p)) /\ Closes(p)
  <2>1. Offers(p, Moved(p), None)
    BY <1>1, <1>2, MoveOffered
  <2>2. Written(p, Moved(p), Garbled, None)
    BY <1>1, <1>4, <2>1 DEF Written, Writes, Appended, Closes
  <2> QED
    BY <1>2, <2>2, WritingIsCoherent
<1>5. CASE /\ Writes(Moved(p)) /\ Len(job[p].segments) > 1
           /\ job' = [job EXCEPT ![p].seq = @ + 1, ![p].hours = After(p),
                                 ![p].segments = Tail(@)]
  <2>1. job' = [job EXCEPT ![p] = GoneOn(p)]
    <3>1. job[p] \in AdvanceCommand
      BY <1>2, AdvancingCommand DEF AdvanceCommand
    <3>2. PICK h : h = After(p)
      OBVIOUS
    <3>3. job' = [job EXCEPT ![p].seq = @ + 1, ![p].hours = h, ![p].segments = Tail(@)]
      BY <1>5, <3>2
    <3>4. job' = [job EXCEPT ![p] =
             [doing |-> job[p].doing, meta |-> job[p].meta, seq |-> job[p].seq + 1,
              who |-> job[p].who, version |-> job[p].version, hours |-> h,
              segments |-> Tail(job[p].segments)]]
      BY <1>2, <3>1, <3>3, NextMove
    <3> QED
      BY <1>1, <3>2, <3>4 DEF GoneOn
  <2>2. Offers(p, Moved(p), GoneOn(p))
    BY <1>1, <1>2, <1>5, MoveOffered
  <2>3. Written(p, Moved(p), Garbled, GoneOn(p))
    BY <1>1, <1>5, <2>1, <2>2 DEF Written, Writes, Appended
  <2> QED
    BY <1>2, <2>3, WritingIsCoherent
<1> QED
  BY <1>3, <1>4, <1>5 DEF Advance

\* An advance dies within a line, or between a line and its newline.
LEMMA AdvanceBreaksOff ==
    ASSUME Coherent, NEW p \in Advancing, NEW line, Offers(p, line, None),
           job[p].doing \in {"extend", "advance"},
           BreaksOff(line), Closes(p), snapshot' = snapshot, met' = met
    PROVE  Coherent'
<1>1. Offers(p, Torn, None)
  BY LinesTyped DEF Offers
<1>2. Written(p, line, Torn, None) \/ Written(p, Torn, Torn, None)
  BY <1>1 DEF Written, BreaksOff, Closes
<1> QED
  BY <1>2, WritingIsCoherent

\* A process that seeds dies there: nobody follows it.
LEMMA SeedBreaksOff ==
    ASSUME Coherent, NEW p \in Process, job[p] # None, job[p].doing = "seed",
           ~LogIsComplete(p), BreaksOff(Sampled(p)), Closes(p),
           snapshot' = snapshot, met' = met
    PROVE  Coherent'
<1>1. Seeding(p)
  BY DEF Seeding
<1>2. /\ Typed /\ log \in Seq(Line) /\ log # None /\ ended
      /\ snapshot \notin RunMetadata
      /\ \A q \in Process : Seeding(q) => q = p
  BY <1>1, SeedingRun
<1>3. /\ Sampled(p) \in Line \ {Torn, Garbled} /\ Sampled(p).seq = Len(log)
      /\ Sampled(p).event \notin {"run.extended", "body.advanced"}
      /\ \A i \in 1..Len(log) :
            /\ log[i] \notin {Torn, Garbled} /\ log[i].seq = i - 1
            /\ log[i].event \notin {"run.extended", "body.advanced"}
  BY <1>1, SampledIs
<1>4. PICK line \in {Sampled(p), Torn} : log' = Append(log, line)
  BY <1>2 DEF BreaksOff
<1>5. /\ line \in Line /\ line # Garbled
      /\ line.event \notin {"run.extended", "body.advanced"}
      /\ line # Torn => line.seq = Len(log)
  BY <1>3, <1>4, LinesTyped DEF Torn, Garbled
<1>n. PICK n \in Nat : n = Len(log)
  BY <1>2
<1>6. /\ log' \in Seq(Line) /\ DOMAIN log' = 1..n + 1 /\ DOMAIN log = 1..n
      /\ Len(log') = n + 1
      /\ \A i \in 1..n : log'[i] = log[i]
      /\ log'[n + 1] = line
      /\ 1..n + 1 = (1..n) \cup {n + 1} /\ (n + 1) - 1 = n
  BY <1>2, <1>4, <1>5, <1>n, Grown
<1>7. job' = [job EXCEPT ![p] = None] /\ ended' = FALSE
  BY DEF BreaksOff, Closes
<1>8. Advancing' = {}
  BY <1>2, <1>7, NoneAdvances
<1>9. Attested' /\ Meeting' /\ Unbroken' /\ Told' /\ Counted'
  <2>1. \A i \in DOMAIN log' : log'[i].event \notin {"run.extended", "body.advanced"}
    BY <1>3, <1>5, <1>6, <1>n
  <2> QED
    BY <1>2, <1>8, <2>1, BeforeSnapshot
<1>10. \A q \in Process : ~Seeding(q)' /\ (job'[q] = job[q] \/ job'[q] = None)
  BY <1>2, <1>7, OneCommand
<1>11. Typed'
  <2>1. log' # <<>>
    BY <1>6
  <2> QED
    BY <1>2, <1>6, <1>7, <2>1 DEF Typed
<1>12. Unseeded' /\ SeedOwns'
  <2>1. \A q \in Process : job'[q] # None /\ job'[q].doing = "create" => job'[q].seq = 0
    BY <1>10 DEF Coherent, Unseeded
  <2> QED
    BY <1>6, <1>10, <2>1, LogIsThere DEF Unseeded, SeedOwns
<1>13. Numbered'
  <2>1. \A i \in DOMAIN log' : log'[i] # Garbled
                             /\ (log'[i] # Torn => log'[i].seq = i - 1)
    BY <1>3, <1>5, <1>6, <1>n
  <2> QED
    BY <1>8, <2>1, NumberedFromOne
<1> QED
  BY <1>9, <1>11, <1>12, <1>13 DEF Coherent

LEMMA DieWritingStep ==
    ASSUME Coherent, NEW p \in Process, DieWriting(p)
    PROVE  Coherent'
<1>1. job[p] # None /\ Closes(p) /\ snapshot' = snapshot /\ met' = met
  BY DEF DieWriting
<1>2. CASE job[p].doing = "seed" /\ ~LogIsComplete(p) /\ BreaksOff(Sampled(p))
  BY <1>1, <1>2, SeedBreaksOff
<1>3. CASE job[p].doing = "extend" /\ BreaksOff(Extension(p))
  <2>1. p \in Advancing
    BY <1>1, <1>3 DEF Advancing
  <2> QED
    BY <1>1, <1>3, <2>1, ExtensionOffered, AdvanceBreaksOff
<1>4. CASE job[p].doing = "advance" /\ BreaksOff(Moved(p))
  <2>1. p \in Advancing
    BY <1>1, <1>4 DEF Advancing
  <2> QED
    BY <1>1, <1>4, <2>1, MoveOffered, AdvanceBreaksOff
<1> QED
  BY <1>2, <1>3, <1>4 DEF DieWriting

--------------------------------------------------------------------------------
(* The theorems.                                                           *)

LEMMA CoherentInit == Init => Coherent
<1> SUFFICES ASSUME Init PROVE Coherent
  OBVIOUS
<1>1. /\ log = None /\ ended = TRUE /\ snapshot = None /\ met = {}
      /\ \A p \in Process : job[p] = None
      /\ job = [p \in Process |-> None]
  BY DEF Init
<1>2. snapshot \notin RunMetadata
  BY <1>1, NoneAssumption
<1>3. Advancing = {} /\ \A p \in Process : ~Seeding(p)
  BY <1>1 DEF Advancing, Seeding
<1>4. Typed
  BY <1>1 DEF Typed
<1>5. Unseeded /\ SeedOwns
  BY <1>1, <1>3 DEF Unseeded, SeedOwns
<1>6. Attested /\ Meeting /\ Unbroken /\ Told /\ Counted /\ Numbered
  BY <1>1, <1>2, <1>3 DEF Attested, Meeting, Unbroken, Told, Counted, Numbered
<1> QED
  BY <1>4, <1>5, <1>6 DEF Coherent

LEMMA CoherentStep == Coherent /\ [Next]_vars => Coherent'
<1> SUFFICES ASSUME Coherent, [Next]_vars PROVE Coherent'
  OBVIOUS
<1>1. CASE UNCHANGED vars
  <2>1. /\ log' = log /\ ended' = ended /\ snapshot' = snapshot
        /\ job' = job /\ met' = met
    BY <1>1 DEF vars
  <2>2. /\ Readable' <=> Readable
        /\ \A c : History(c)' = History(c)
        /\ \A c, i : LivedBefore(c, i)' = LivedBefore(c, i)
        /\ \A i : NumberAt(i)' = NumberAt(i)
    BY <2>1, SameLog
  <2>3. Typed' /\ Unseeded' /\ SeedOwns' /\ Attested'
    BY <2>1 DEF Coherent, Typed, Unseeded, SeedOwns, Seeding, Follows, LogIsComplete,
                Attested, OfRun, Advancing
  <2>4. Advancing' = Advancing /\ Meeting' /\ Unbroken'
    BY <2>1, <2>2 DEF Coherent, Meeting, Unbroken, Advancing
  <2>5. Told' /\ Counted'
    BY <2>1, <2>2, <2>4 DEF Coherent, Told, Undisturbed, Counted
  <2>6. Numbered'
    BY <2>1, <2>4 DEF Coherent, Numbered, NumberAt, RunOnBefore
  <2> QED
    BY <2>3, <2>4, <2>5, <2>6 DEF Coherent
<1>2. ASSUME NEW p \in Process, NEW m \in RunMetadata, SeedCohort(p, m)
      PROVE  Coherent'
  BY <1>2, SeedCohortStep
<1>3. ASSUME NEW p \in Process, CreateLog(p) PROVE Coherent'
  BY <1>3, CreateLogStep
<1>4. ASSUME NEW p \in Process, SeedCharacter(p) PROVE Coherent'
  BY <1>4, SeedCharacterStep
<1>5. ASSUME NEW p \in Process, CreateSnapshot(p) PROVE Coherent'
  BY <1>5, CreateSnapshotStep
<1>6. ASSUME NEW p \in Process, WriteSnapshot(p) PROVE Coherent'
  BY <1>6, WriteSnapshotStep
<1>7. ASSUME NEW p \in Process, NEW c \in Character, NEW v \in Version,
             NEW night \in Night, NEW days \in Days,
             AdvanceClock(p, c, v, Segments(night, days))
      PROVE  Coherent'
  BY <1>7, AdvanceClockStep
<1>8. ASSUME NEW p \in Process, ReadOpening(p) PROVE Coherent'
  BY <1>8, ReadOpeningStep
<1>9. ASSUME NEW p \in Process, ExtendLog(p) PROVE Coherent'
  BY <1>9, ExtendLogStep
<1>10. ASSUME NEW p \in Process, Advance(p) PROVE Coherent'
  BY <1>10, AdvanceStep
<1>11. ASSUME NEW p \in Process, Die(p) PROVE Coherent'
  BY <1>11, EndKeeps DEF Die
<1>12. ASSUME NEW p \in Process, DieWriting(p) PROVE Coherent'
  BY <1>12, DieWritingStep
<1> QED
  BY <1>1, <1>2, <1>3, <1>4, <1>5, <1>6, <1>7, <1>8, <1>9, <1>10, <1>11, <1>12
  DEF Next

LEMMA AlwaysCoherent == Spec => []Coherent
BY CoherentInit, CoherentStep, PTL DEF Spec

\* The history a log tells of a body that was not advanced by two commands at
\* once is one: a move starts where the one before it ended, however many
\* commands died half way, with or without the newline of their last line.  A
\* move can only be lost to an advance of another body that was open together
\* with its own, and then it shows in the numbers of the lines.  And a run whose
\* advances were never open together loses at most two records to such deaths,
\* the line without a newline and the opening of the phase that ran on from it.
THEOREM BodiesHaveOneHistory == Spec => []HistoryIsOne
<1>1. ASSUME Coherent, log # None, NEW c \in Character, {c} \notin met
      PROVE  IsOneHistory(c)
  BY <1>1 DEF Coherent, Told, Undisturbed, Counted, IsOneHistory
<1>2. ASSUME Coherent, log # None, met = {}
      PROVE  LossIsBounded
  BY <1>2 DEF Coherent, Numbered, NumberAt, LossIsBounded
<1>3. Coherent => HistoryIsOne
  BY <1>1, <1>2 DEF HistoryIsOne
<1> QED
  BY <1>3, AlwaysCoherent, PTL

\* A snapshot that can be read attests the run its log opens with: the whole
\* cohort was sampled there, and what was appended since is of this run.
THEOREM SnapshotsAreBacked == Spec => []SnapshotIsBacked
<1>1. ASSUME Coherent, log # None, snapshot \in RunMetadata
      PROVE  /\ IsPrefix(Script(snapshot), log)
             /\ \A i \in DOMAIN log : OfRun(snapshot, log[i])
             /\ Script(snapshot) # <<>>
  <2>1. /\ Script(snapshot) \in Seq(Line) /\ Len(Script(snapshot)) \in Nat \ {0}
    BY <1>1, ScriptIs, MetadataTyped
  <2>2. log \in Seq(Line) /\ Len(log) \in Nat
    BY <1>1 DEF Coherent, Typed
  <2>3. /\ Len(Script(snapshot)) <= Len(log)
        /\ \A i \in 1..Len(Script(snapshot)) : log[i] = Script(snapshot)[i]
        /\ \A i \in DOMAIN log : OfRun(snapshot, log[i])
    BY <1>1 DEF Coherent, Attested, Follows
  <2>4. SubSeq(Script(snapshot), 1, Len(Script(snapshot)))
           = SubSeq(log, 1, Len(Script(snapshot)))
    BY <2>1, <2>2, <2>3
  <2> QED
    BY <2>1, <2>3, <2>4 DEF IsPrefix
<1>2. ASSUME Coherent, log # None, snapshot \notin RunMetadata
      PROVE  /\ IsPrefix(<<>>, log)
             /\ \A i \in DOMAIN log :
                   log[i].event \notin {"run.extended", "body.advanced"}
  <2>1. log \in Seq(Line) /\ Len(log) \in Nat
    BY <1>2 DEF Coherent, Typed
  <2>2. IsPrefix(<<>>, log)
    BY <2>1 DEF IsPrefix
  <2> QED
    BY <1>2, <2>2 DEF Coherent, Attested
<1>3. Coherent => SnapshotIsBacked
  BY <1>1, <1>2 DEF SnapshotIsBacked, OfRun
<1> QED
  BY <1>3, AlwaysCoherent, PTL

================================================================================

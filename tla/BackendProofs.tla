---------------------------- MODULE BackendProofs ----------------------------
(***************************************************************************)
(* Three invariants of the backend: the console never refuses the command  *)
(* of a client that has the right token, a grant that went well lasts as   *)
(* long as the boot it was asked for in, and what the logcat stream wrote  *)
(* is the log, in order.                                                   *)
(***************************************************************************)
EXTENDS Backend, SequenceTheorems, FiniteSetTheorems, TLAPS

-----------------------------------------------------------------------------
(* The console's client. *)

Lines == {"auth", "cmd", "quit"}

\* What a client with the right token sends: auth and the command together, and
\* no command reaches a console that has not read an auth before it.
EmuInv ==
    /\ toConsole \in Seq(Lines)
    /\ token = "right" =>
         /\ sentAuth <=> sentCmd
         /\ verdict # "refused"
         /\ ~authed => \A i \in DOMAIN toConsole : toConsole[i] = "cmd" =>
              \E j \in 1 .. i - 1 : toConsole[j] = "auth"

LEMMA WrittenLines ==
    ASSUME NEW auth \in BOOLEAN, NEW cmd \in BOOLEAN
    PROVE  /\ Written(auth, cmd) \in Seq(Lines)
           /\ ~auth /\ ~cmd => Written(auth, cmd) = <<>>
           /\ auth /\ cmd => Written(auth, cmd) # <<>> /\ Written(auth, cmd)[1] = "auth"
<1>1. <<"cmd", "quit">> \in Seq(Lines) /\ <<"auth">> \in Seq(Lines)
      /\ <<>> \in Seq(Lines)
  BY DEF Lines
<1>2. Written(auth, cmd) \in Seq(Lines)
  <2>1. (IF auth THEN <<"auth">> ELSE <<>>) \in Seq(Lines) BY <1>1
  <2>2. (IF cmd THEN <<"cmd", "quit">> ELSE <<>>) \in Seq(Lines) BY <1>1
  <2> QED BY <2>1, <2>2 DEF Written
<1>3. ~auth /\ ~cmd => Written(auth, cmd) = <<>>
  BY DEF Written
<1>4. ASSUME auth, cmd
      PROVE  Written(auth, cmd) # <<>> /\ Written(auth, cmd)[1] = "auth"
  <2> DEFINE s == <<"auth">>
             t == <<"cmd", "quit">>
  <2>1. Written(auth, cmd) = s \o t BY <1>4, Zenon DEF Written
  <2>2. s \in Seq(Lines) /\ t \in Seq(Lines) /\ Len(s) = 1 /\ s[1] = "auth"
    BY <1>1
  <2> HIDE DEF s, t
  <2>3. s \o t # <<>> /\ (s \o t)[1] = "auth" BY <2>2
  <2> QED BY <2>1, <2>3
<1> QED BY <1>2, <1>3, <1>4

LEMMA EmuStep ==
    ASSUME EmuInv, EmuNext
    PROVE  EmuInv'
<1>1. ASSUME UNCHANGED <<token, toConsole, sentAuth, sentCmd, authed, verdict>>
      PROVE  EmuInv'
  BY <1>1 DEF EmuInv
<1>2. CASE ConsoleReads
  <2> DEFINE rest == Tail(toConsole)
  <2>1. /\ toConsole # <<>> /\ toConsole' = rest
        /\ UNCHANGED <<token, sentAuth, sentCmd>>
        /\ toConsole \in Seq(Lines)
    BY <1>2 DEF ConsoleReads, EmuInv
  <2>2. /\ rest \in Seq(Lines) /\ Head(toConsole) \in Lines
        /\ Head(toConsole) = toConsole[1] /\ 1 \in DOMAIN toConsole
        /\ \A i \in DOMAIN rest : i + 1 \in DOMAIN toConsole /\ rest[i] = toConsole[i + 1]
        /\ DOMAIN rest \subseteq Nat
    BY <2>1
  <2> HIDE DEF rest
  <2>3. CASE Head(toConsole) = "auth"
    <3>1. authed' = (token = "right") /\ UNCHANGED verdict
      BY <1>2, <2>3 DEF ConsoleReads
    <3> QED BY <2>1, <2>2, <3>1 DEF EmuInv
  <2>4. CASE Head(toConsole) = "cmd"
    <3>1. verdict' = (IF authed THEN "done" ELSE "refused") /\ UNCHANGED authed
      BY <1>2, <2>4 DEF ConsoleReads
    <3>2. token = "right" => authed
      <4>1. ~ \E j \in 1 .. 1 - 1 : toConsole[j] = "auth" OBVIOUS
      <4> QED BY <2>2, <2>4, <4>1 DEF EmuInv
    <3> QED BY <2>1, <2>2, <3>1, <3>2 DEF EmuInv
  <2>5. CASE Head(toConsole) = "quit"
    <3>1. UNCHANGED <<authed, verdict>> BY <1>2, <2>5 DEF ConsoleReads
    <3>2. ASSUME token = "right", ~authed,
                 NEW i \in DOMAIN rest, rest[i] = "cmd"
          PROVE  \E j \in 1 .. i - 1 : rest[j] = "auth"
      <4>1. PICK j \in 1 .. (i + 1) - 1 : toConsole[j] = "auth"
        BY <2>2, <3>2 DEF EmuInv
      <4>2. j # 1 BY <2>2, <2>5, <4>1
      <4>3. j - 1 \in 1 .. i - 1 /\ j - 1 \in DOMAIN rest
        BY <2>1, <2>2, <3>2, <4>1, <4>2 DEF rest
      <4>4. rest[j - 1] = toConsole[(j - 1) + 1] BY <2>2, <4>3
      <4>5. (j - 1) + 1 = j BY <2>2, <4>1
      <4> QED BY <4>1, <4>3, <4>4, <4>5
    <3> QED BY <2>1, <2>2, <3>1, <3>2 DEF EmuInv
  <2> QED BY <2>2, <2>3, <2>4, <2>5 DEF Lines
<1>3. CASE LinesLost
  <2>1. toConsole' = <<>> /\ UNCHANGED <<token, sentAuth, sentCmd, authed, verdict>>
    BY <1>3 DEF LinesLost
  <2> QED BY <2>1 DEF EmuInv
<1>4. ASSUME NEW n \in 1 .. Len(toClient), Data(n) PROVE EmuInv'
  <2> DEFINE ready == "OK" \in seen \cup Range(SubSeq(toClient, 1, n))
             auth == ready /\ ~sentAuth /\ token # "none"
             cmd == ready /\ ~sentCmd
             new == Written(auth, cmd)
  <2>1. /\ sentAuth' = (sentAuth \/ auth) /\ sentCmd' = (sentCmd \/ cmd)
        /\ toConsole' = toConsole \o new
        /\ UNCHANGED <<token, authed, verdict>>
    BY <1>4, Zenon DEF Data
  <2>2. auth \in BOOLEAN /\ cmd \in BOOLEAN OBVIOUS
  <2>3. token = "right" => (auth <=> cmd) BY DEF EmuInv
  <2> HIDE DEF auth, cmd
  <2>4. /\ new \in Seq(Lines) /\ (~auth /\ ~cmd => new = <<>>)
        /\ (auth /\ cmd => new # <<>> /\ new[1] = "auth")
    BY <2>2, WrittenLines
  <2> HIDE DEF new
  <2>5. toConsole \in Seq(Lines) /\ toConsole' \in Seq(Lines)
    BY <2>1, <2>4 DEF EmuInv
  <2>6. ASSUME token = "right", ~authed, NEW i \in DOMAIN toConsole',
               toConsole'[i] = "cmd"
        PROVE  \E j \in 1 .. i - 1 : toConsole'[j] = "auth"
    <3>1. CASE i \in DOMAIN toConsole
      <4>1. toConsole[i] = "cmd" BY <2>1, <2>4, <2>5, <2>6, <3>1
      <4>2. PICK j \in 1 .. i - 1 : toConsole[j] = "auth"
        BY <2>6, <3>1, <4>1 DEF EmuInv
      <4>3. j \in DOMAIN toConsole BY <2>5, <3>1
      <4>4. toConsole'[j] = toConsole[j] BY <2>1, <2>4, <2>5, <4>3
      <4> QED BY <4>2, <4>4
    <3>2. CASE i \notin DOMAIN toConsole
      <4>1. i \in 1 .. Len(toConsole) + Len(new) /\ i > Len(toConsole)
        BY <2>1, <2>4, <2>5, <2>6, <3>2
      <4>2. new[1] = "auth" /\ Len(new) >= 1
        <5>1. new # <<>> BY <2>5, <4>1
        <5> QED BY <2>2, <2>3, <2>4, <2>6, <5>1
      <4>3. toConsole'[i] = new[i - Len(toConsole)] BY <2>1, <2>4, <2>5, <4>1
      <4>4. i # Len(toConsole) + 1 BY <2>5, <2>6, <4>2, <4>3
      <4>5. Len(toConsole) + 1 \in 1 .. i - 1 BY <2>5, <4>1, <4>4
      <4>6. toConsole'[Len(toConsole) + 1] = new[1]
        BY <2>1, <2>4, <2>5, <4>2
      <4> QED BY <4>2, <4>5, <4>6
    <3> QED BY <3>1, <3>2
  <2> QED BY <2>1, <2>3, <2>5, <2>6 DEF EmuInv
<1>5. \/ ConsoleReads \/ LinesLost \/ \E n \in 1 .. Len(toClient) : Data(n)
      \/ UNCHANGED <<token, toConsole, sentAuth, sentCmd, authed, verdict>>
  BY DEF EmuNext, Greet, ConsoleDies, TimesOut, SocketError, SocketClosed
<1> QED BY <1>1, <1>2, <1>3, <1>4, <1>5

-----------------------------------------------------------------------------
(* The scope's job. *)

Task(a) == <<a, "job">>

\* A command that ended with 0 was executed.
AdbInv ==
    /\ child \in [Commands -> {"idle", "running", "ended", "settled"}]
    /\ code \in [Commands -> {"none", "0", "1", "signal"}]
    /\ killed \in [Commands -> BOOLEAN]
    /\ executed \in [Commands -> BOOLEAN]
    /\ ok \in [Commands -> BOOLEAN]
    /\ \A k \in Commands :
         /\ code[k] = "0" => executed[k]
         /\ ok[k] => executed[k]

JobStates == {"idle", "sleep", "poll", "root", "grant", "over"}

\* No answer is of a boot to come, and a grant that was executed holds until the
\* next reboot.
Allows(a) ==
    /\ askedIn[a] \in Nat /\ askedIn[a] <= boot
    /\ polls[a] \in Nat
    /\ /\ job[a] = "grant" \/ (job[a] = "over" /\ polls[a] < MaxPolls)
       /\ executed[Task(a)] /\ askedIn[a] = boot
       => allowed

ScopeInv ==
    /\ AdbInv
    /\ boot \in Nat /\ allowed \in BOOLEAN
    /\ job \in [Applies -> JobStates]
    /\ askedIn \in [Applies -> Nat] /\ polls \in [Applies -> Nat]
    /\ \A a \in Applies : Allows(a)

LEMMA TaskIsCommand ==
    ASSUME NEW a \in Applies
    PROVE  /\ Task(a) \in Commands /\ <<a, "reboot">> \in Commands
           /\ \A b \in Applies : /\ Task(b) = Task(a) => b = a
                                 /\ <<a, "reboot">> # Task(b)
BY ApplyAssumption DEF Task

LEMMA SpawnInv ==
    ASSUME AdbInv, NEW k \in Commands, Spawn(k)
    PROVE  AdbInv' /\ executed' = [executed EXCEPT ![k] = FALSE]
BY DEF AdbInv, Spawn

LEMMA ExecuteInv ==
    ASSUME AdbInv, NEW k \in Commands, Execute(k)
    PROVE  AdbInv' /\ executed' = [executed EXCEPT ![k] = TRUE]
BY DEF AdbInv, Execute

LEMMA AdbStepInv ==
    ASSUME AdbInv, NEW k \in Commands, AdbStep(k)
    PROVE  AdbInv' /\ UNCHANGED executed
<1>1. ASSUME NEW status \in {"0", "1"}, Exit(k, status)
      PROVE  AdbInv' /\ UNCHANGED executed
  BY <1>1 DEF AdbInv, Exit
<1>2. CASE Timeout(k) BY <1>2 DEF AdbInv, Timeout
<1>3. CASE Close(k) BY <1>3 DEF AdbInv, Close
<1> QED BY <1>1, <1>2, <1>3 DEF AdbStep

\* The device does something, and the job stays where it is.
LEMMA DeviceStep ==
    ASSUME ScopeInv, AdbInv', UNCHANGED <<job, polls>>,
           boot' \in Nat, allowed' \in BOOLEAN, askedIn' \in [Applies -> Nat],
           \A a \in Applies : Allows(a)'
    PROVE  ScopeInv'
BY DEF ScopeInv

\* A reboot, whoever asks for it.
LEMMA RebootStep ==
    ASSUME ScopeInv, AdbInv', UNCHANGED <<job, polls, askedIn>>,
           boot' = boot + 1, allowed' = FALSE
    PROVE  ScopeInv'
<1>1. ASSUME NEW a \in Applies PROVE Allows(a)'
  <2>1. askedIn[a] \in Nat /\ askedIn[a] <= boot /\ boot \in Nat /\ polls[a] \in Nat
    BY DEF ScopeInv, Allows
  <2>2. askedIn'[a] # boot' /\ askedIn'[a] <= boot' BY <2>1
  <2> QED BY <2>1, <2>2 DEF Allows
<1>2. boot' \in Nat /\ allowed' \in BOOLEAN /\ askedIn' \in [Applies -> Nat]
  <2>1. boot \in Nat /\ askedIn \in [Applies -> Nat] BY DEF ScopeInv
  <2>2. boot' \in Nat BY <2>1
  <2>3. allowed' \in BOOLEAN OBVIOUS
  <2> QED BY <2>1, <2>2, <2>3
<1> QED BY <1>1, <1>2, DeviceStep

\* The job of a goes on: its command, if it has a new one, is not executed yet.
LEMMA JobMoves ==
    ASSUME ScopeInv, AdbInv', NEW a \in Applies, NEW next \in JobStates,
           NEW n \in Nat, job' = [job EXCEPT ![a] = next],
           polls' = [polls EXCEPT ![a] = n],
           UNCHANGED <<boot, allowed, askedIn>>,
           \A b \in Applies \ {a} : executed'[Task(b)] = executed[Task(b)],
           next = "grant" => ~executed'[Task(a)],
           next = "over" /\ n < MaxPolls =>
             job[a] = "grant" /\ (executed'[Task(a)] = executed[Task(a)])
    PROVE  ScopeInv'
<1>1. ASSUME NEW b \in Applies \ {a} PROVE Allows(b)'
  <2>1. job'[b] = job[b] /\ polls'[b] = polls[b] BY DEF ScopeInv
  <2>2. Allows(b) BY DEF ScopeInv
  <2> QED BY <2>1, <2>2 DEF Allows
<1>2. Allows(a)'
  <2>1. job'[a] = next /\ polls'[a] = n BY DEF ScopeInv
  <2>2. Allows(a) BY DEF ScopeInv
  <2> QED BY <2>1, <2>2 DEF Allows
<1> QED BY <1>1, <1>2 DEF ScopeInv

LEMMA JobStepInv ==
    ASSUME ScopeInv, NEW a \in Applies, JobStep(a)
    PROVE  ScopeInv'
<1>1. /\ AdbInv /\ job \in [Applies -> JobStates] /\ polls \in [Applies -> Nat]
      /\ executed \in [Commands -> BOOLEAN] /\ polls[a] \in Nat
      /\ polls = [polls EXCEPT ![a] = polls[a]]
  BY DEF ScopeInv, AdbInv
<1>2. ASSUME NEW k \in Commands, Spawn(k), k = Task(a) \/ k = <<a, "reboot">>
      PROVE  /\ AdbInv' /\ (k = Task(a) => ~executed'[Task(a)])
             /\ \A b \in Applies \ {a} : executed'[Task(b)] = executed[Task(b)]
  <2>1. AdbInv' /\ executed' = [executed EXCEPT ![k] = FALSE]
    BY <1>1, <1>2, SpawnInv
  <2>2. \A b \in Applies \ {a} : Task(b) \in Commands /\ Task(b) # k
    BY <1>2, TaskIsCommand
  <2> QED BY <1>1, <2>1, <2>2
<1>3. ASSUME UNCHANGED adbVars PROVE AdbInv' /\ UNCHANGED executed
  BY <1>1, <1>3 DEF AdbInv, adbVars
<1>4. Task(a) \in Commands /\ <<a, "reboot">> \in Commands BY TaskIsCommand
<1>5. CASE Apply(a)
  <2>1. /\ Spawn(<<a, "reboot">>) /\ job' = [job EXCEPT ![a] = "sleep"]
        /\ polls' = [polls EXCEPT ![a] = polls[a]]
        /\ UNCHANGED <<boot, allowed, askedIn>>
    BY <1>1, <1>5 DEF Apply
  <2>2. /\ AdbInv'
        /\ \A b \in Applies \ {a} : executed'[Task(b)] = executed[Task(b)]
    BY <1>2, <1>4, <2>1
  <2> QED BY <1>1, <2>1, <2>2, JobMoves DEF JobStates
<1>6. CASE Poll(a)
  <2>1. CASE polls[a] < MaxPolls
    <3>1. /\ Spawn(Task(a)) /\ job' = [job EXCEPT ![a] = "poll"]
          /\ polls' = [polls EXCEPT ![a] = polls[a]]
          /\ UNCHANGED <<boot, allowed, askedIn>>
      BY <1>1, <1>6, <2>1 DEF Poll, Task
    <3>2. /\ AdbInv'
          /\ \A b \in Applies \ {a} : executed'[Task(b)] = executed[Task(b)]
      BY <1>2, <1>4, <3>1
    <3> QED BY <1>1, <3>1, <3>2, JobMoves DEF JobStates
  <2>2. CASE ~(polls[a] < MaxPolls)
    <3>1. /\ UNCHANGED adbVars /\ job' = [job EXCEPT ![a] = "over"]
          /\ polls' = [polls EXCEPT ![a] = polls[a]]
          /\ UNCHANGED <<boot, allowed, askedIn>>
      BY <1>1, <1>6, <2>2 DEF Poll
    <3>2. AdbInv' /\ UNCHANGED executed BY <1>3, <3>1
    <3> QED BY <1>1, <2>2, <3>1, <3>2, JobMoves DEF JobStates
  <2> QED BY <2>1, <2>2
<1>7. CASE Polled(a)
  <2>1. CASE ok[<<a, "job">>] /\ answer[a] = "1"
    <3>1. /\ Spawn(Task(a)) /\ job' = [job EXCEPT ![a] = "root"]
          /\ polls' = [polls EXCEPT ![a] = polls[a]]
          /\ UNCHANGED <<boot, allowed, askedIn>>
      BY <1>1, <1>7, <2>1 DEF Polled, Task
    <3>2. /\ AdbInv'
          /\ \A b \in Applies \ {a} : executed'[Task(b)] = executed[Task(b)]
      BY <1>2, <1>4, <3>1
    <3> QED BY <1>1, <3>1, <3>2, JobMoves DEF JobStates
  <2>2. CASE ~(ok[<<a, "job">>] /\ answer[a] = "1")
    <3>1. /\ UNCHANGED adbVars /\ job' = [job EXCEPT ![a] = "sleep"]
          /\ polls' = [polls EXCEPT ![a] = polls[a] + 1] /\ polls[a] + 1 \in Nat
          /\ UNCHANGED <<boot, allowed, askedIn>>
      BY <1>1, <1>7, <2>2 DEF Polled
    <3>2. AdbInv' /\ UNCHANGED executed BY <1>3, <3>1
    <3> QED BY <1>1, <3>1, <3>2, JobMoves DEF JobStates
  <2> QED BY <2>1, <2>2
<1>8. CASE Rooted(a)
  <2>1. /\ Spawn(Task(a)) /\ job' = [job EXCEPT ![a] = "grant"]
        /\ polls' = [polls EXCEPT ![a] = polls[a]]
        /\ UNCHANGED <<boot, allowed, askedIn>>
    BY <1>1, <1>8 DEF Rooted, Task
  <2>2. /\ AdbInv' /\ ~executed'[Task(a)]
        /\ \A b \in Applies \ {a} : executed'[Task(b)] = executed[Task(b)]
    BY <1>2, <1>4, <2>1
  <2> QED BY <1>1, <2>1, <2>2, JobMoves DEF JobStates
<1>9. CASE Granted(a)
  <2>1. /\ UNCHANGED adbVars /\ job' = [job EXCEPT ![a] = "over"]
        /\ polls' = [polls EXCEPT ![a] = polls[a]]
        /\ UNCHANGED <<boot, allowed, askedIn>> /\ job[a] = "grant"
    BY <1>1, <1>9 DEF Granted
  <2>2. AdbInv' /\ UNCHANGED executed BY <1>3, <2>1
  <2> QED BY <1>1, <2>1, <2>2, JobMoves DEF JobStates
<1> QED BY <1>5, <1>6, <1>7, <1>8, <1>9 DEF JobStep

\* The device executes the job's command.
LEMMA ServesInv ==
    ASSUME ScopeInv, NEW a \in Applies, Serves(a)
    PROVE  ScopeInv'
<1>1. /\ AdbInv /\ job \in [Applies -> JobStates] /\ polls \in [Applies -> Nat]
      /\ executed \in [Commands -> BOOLEAN] /\ askedIn \in [Applies -> Nat]
      /\ boot \in Nat
  BY DEF ScopeInv, AdbInv
<1>2. /\ AdbInv' /\ executed' = [executed EXCEPT ![Task(a)] = TRUE]
      /\ UNCHANGED <<boot, job, polls>>
  BY <1>1, TaskIsCommand, ExecuteInv DEF Serves, Task
<1>3. \A b \in Applies \ {a} : executed'[Task(b)] = executed[Task(b)]
  BY <1>1, <1>2, TaskIsCommand
<1>4. \A b \in Applies : Allows(b) BY DEF ScopeInv
<1>5. CASE /\ job[a] = "poll" /\ askedIn' = [askedIn EXCEPT ![a] = boot]
           /\ UNCHANGED allowed
  <2>1. ASSUME NEW b \in Applies \ {a} PROVE Allows(b)'
    <3>1. askedIn'[b] = askedIn[b] BY <1>1, <1>5
    <3> QED BY <1>2, <1>3, <1>4, <1>5, <3>1 DEF Allows
  <2>2. Allows(a)'
    <3>1. askedIn'[a] = boot BY <1>1, <1>5
    <3> QED BY <1>1, <1>2, <1>4, <1>5, <3>1 DEF Allows
  <2>3. askedIn' \in [Applies -> Nat] BY <1>1, <1>5
  <2> QED BY <1>1, <1>2, <1>5, <2>1, <2>2, <2>3, DeviceStep DEF ScopeInv
<1>6. CASE job[a] = "root" /\ UNCHANGED <<askedIn, allowed>>
  <2>1. ASSUME NEW b \in Applies \ {a} PROVE Allows(b)'
    BY <1>2, <1>3, <1>4, <1>6 DEF Allows
  <2>2. Allows(a)' BY <1>2, <1>4, <1>6 DEF Allows
  <2> QED BY <1>1, <1>2, <1>6, <2>1, <2>2, DeviceStep DEF ScopeInv
<1>7. CASE allowed' = TRUE /\ UNCHANGED askedIn
  <2>1. \A b \in Applies : Allows(b)' BY <1>2, <1>4, <1>7 DEF Allows
  <2> QED BY <1>1, <1>2, <1>7, <2>1, DeviceStep
<1> QED BY <1>5, <1>6, <1>7 DEF Serves

LEMMA ScopeStep ==
    ASSUME ScopeInv, ApplyNext
    PROVE  ScopeInv'
<1>1. AdbInv BY DEF ScopeInv
<1>2. ASSUME NEW a \in Applies, Reboots(a) PROVE ScopeInv'
  <2>1. Execute(<<a, "reboot">>) /\ <<a, "reboot">> \in Commands
    BY <1>2, TaskIsCommand DEF Reboots
  <2>2. AdbInv' BY <1>1, <2>1, ExecuteInv
  <2> QED BY <1>2, <2>2, RebootStep DEF Reboots
<1>3. CASE Restarts
  <2>1. AdbInv' BY <1>1, <1>3 DEF Restarts, AdbInv, adbVars
  <2> QED BY <1>3, <2>1, RebootStep DEF Restarts
<1>4. ASSUME UNCHANGED <<executed, boot, allowed, job, polls, askedIn>>, AdbInv'
      PROVE  ScopeInv'
  BY <1>4 DEF ScopeInv, Allows
<1>5. CASE Boots \/ AdbdReturns
  <2>1. UNCHANGED adbVars /\ UNCHANGED <<boot, allowed, job, polls, askedIn>>
    BY <1>5 DEF Boots, AdbdReturns
  <2>2. AdbInv' /\ UNCHANGED executed BY <1>1, <2>1 DEF AdbInv, adbVars
  <2> QED BY <1>4, <2>1, <2>2
<1>6. ASSUME NEW k \in Commands, AdbStep(k), UNCHANGED applyVars PROVE ScopeInv'
  <2>1. AdbInv' /\ UNCHANGED executed BY <1>1, <1>6, AdbStepInv
  <2> QED BY <1>4, <1>6, <2>1 DEF applyVars
<1> QED BY <1>2, <1>3, <1>5, <1>6, JobStepInv, ServesInv DEF ApplyNext

-----------------------------------------------------------------------------
(* The theorems. *)

BackendInv == EmuInv /\ ScopeInv

\* What one part of the backend does leaves the others as they are.
LEMMA BackendStep == ASSUME BackendInv, [Next]_vars PROVE BackendInv'
<1>1. ASSUME UNCHANGED emuVars PROVE EmuInv'
  BY <1>1 DEF BackendInv, EmuInv, emuVars
<1>2. ASSUME UNCHANGED <<adbVars, applyVars>> PROVE ScopeInv'
  BY <1>2 DEF BackendInv, ScopeInv, AdbInv, Allows, Task, adbVars, applyVars
<1>3. CASE EmuNext /\ UNCHANGED <<adbVars, applyVars>>
  BY <1>2, <1>3, EmuStep DEF BackendInv
<1>4. CASE ApplyNext /\ UNCHANGED emuVars
  BY <1>1, <1>4, ScopeStep DEF BackendInv
<1>5. CASE UNCHANGED <<emuVars, adbVars, applyVars>>
  BY <1>1, <1>2, <1>5 DEF BackendInv
<1> QED BY <1>3, <1>4, <1>5 DEF Next, vars

\* The inductive invariant: no command goes ahead of its auth, and no executed
\* grant is lost but to a reboot.
THEOREM BackendInvariance == Spec => []BackendInv
<1>1. Init => BackendInv
  <2> SUFFICES ASSUME Init PROVE BackendInv OBVIOUS
  <2>1. EmuInv BY DEF Init, EmuInit, EmuInv
  <2>2. AdbInv BY DEF Init, ApplyInit, AdbInit, AdbInv
  <2>3. ASSUME NEW a \in Applies PROVE Allows(a)
    <3>1. Task(a) \in Commands /\ ~executed[Task(a)]
      BY TaskIsCommand DEF Init, ApplyInit, AdbInit
    <3>2. askedIn[a] = 0 /\ polls[a] = 0 /\ boot = 0 BY DEF Init, ApplyInit
    <3> QED BY <3>1, <3>2 DEF Allows
  <2>4. ScopeInv
    BY <2>2, <2>3 DEF Init, ApplyInit, ScopeInv, JobStates
  <2> QED BY <2>1, <2>4 DEF BackendInv
<1>2. BackendInv /\ [Next]_vars => BackendInv' BY BackendStep
<1> QED BY <1>1, <1>2, PTL DEF Spec

\* The console never refuses the command of a client that has the right token,
\* however what the two say to each other is cut into pieces.
THEOREM NeverRefusedHolds == Spec => []NeverRefused
<1>1. BackendInv => NeverRefused BY DEF BackendInv, EmuInv, NeverRefused
<1> QED BY <1>1, BackendInvariance, PTL

\* The app-op a job granted stays granted as long as the boot its answer is from.
THEOREM GrantLasts == Spec => []GrantOutlivesReboot
<1>1. BackendInv => GrantOutlivesReboot
  BY TaskIsCommand DEF BackendInv, ScopeInv, AdbInv, Allows, Task, GrantOutlivesReboot
<1> QED BY <1>1, BackendInvariance, PTL

-----------------------------------------------------------------------------
(* Recursive functions on sequences, as data. *)

LEMMA Smallest ==
    ASSUME NEW T \in SUBSET Nat, T # {}
    PROVE  \E x \in T : \A y \in T : x <= y
<1> DEFINE Initials == {0 .. x : x \in T}
<1>1. Initials \subseteq FiniteSubsetsOf(Nat) /\ Initials # {}
  <2>1. \A x \in Nat : 0 .. x \subseteq Nat /\ IsFiniteSet(0 .. x) BY FS_Interval
  <2> QED BY <2>1 DEF FiniteSubsetsOf
<1>2. PICK B \in Initials : \A C \in Initials : ~(<<C, B>> \in StrictSubsetOrdering(Nat))
  <2>1. IsWellFoundedOn(StrictSubsetOrdering(Nat), FiniteSubsetsOf(Nat))
    BY FS_StrictSubsetOrderingWellFounded
  <2> HIDE DEF Initials
  <2> QED BY <1>1, <2>1, WFMin
<1>3. PICK x \in T : B = 0 .. x OBVIOUS
<1>4. ASSUME NEW y \in T, y < x PROVE FALSE
  <2>1. (0 .. y) \subseteq (0 .. x) /\ x \in 0 .. x /\ x \notin 0 .. y BY <1>4
  <2>2. 0 .. y \in SUBSET Nat /\ 0 .. x \in SUBSET Nat OBVIOUS
  <2>3. <<0 .. y, 0 .. x>> \in StrictSubsetOrdering(Nat)
    BY <2>1, <2>2 DEF StrictSubsetOrdering
  <2> QED BY <1>2, <1>3, <2>3
<1>5. \A y \in T : x <= y BY <1>4
<1> QED BY <1>3, <1>5

\* f is the function in FlattenSeq(s).
Flattens(s, f) ==
    f = [i \in 1 .. Len(s) |-> IF i = 1 THEN s[i] ELSE f[i - 1] \o s[i]]

LEMMA FlattensAt ==
    ASSUME NEW s, NEW f, Flattens(s, f), NEW i \in 1 .. Len(s)
    PROVE  f[i] = IF i = 1 THEN s[i] ELSE f[i - 1] \o s[i]
<1> DEFINE F == [j \in 1 .. Len(s) |-> IF j = 1 THEN s[j] ELSE f[j - 1] \o s[j]]
<1>1. f = F BY DEF Flattens
<1>2. F[i] = IF i = 1 THEN s[i] ELSE f[i - 1] \o s[i] OBVIOUS
<1> HIDE DEF F
<1> QED BY <1>1, <1>2

\* On what two sequences share, their functions agree.
LEMMA FlattensAgree ==
    ASSUME NEW V, NEW s \in Seq(Seq(V)), NEW t \in Seq(Seq(V)), Len(s) <= Len(t),
           \A i \in 1 .. Len(s) : s[i] = t[i],
           NEW f, NEW g, Flattens(s, f), Flattens(t, g)
    PROVE  \A i \in 1 .. Len(s) : f[i] = g[i] /\ f[i] \in Seq(V)
<1> DEFINE B == {i \in 1 .. Len(s) : ~(f[i] = g[i] /\ f[i] \in Seq(V))}
<1> SUFFICES ASSUME B # {} PROVE FALSE OBVIOUS
<1>1. PICK m \in B : \A y \in B : m <= y
  <2>1. B \in SUBSET Nat OBVIOUS
  <2> HIDE DEF B
  <2> QED BY <2>1, Smallest
<1>2. m \in 1 .. Len(s) /\ m \in 1 .. Len(t) /\ m \in Nat OBVIOUS
<1>3. /\ f[m] = IF m = 1 THEN s[m] ELSE f[m - 1] \o s[m]
      /\ g[m] = IF m = 1 THEN t[m] ELSE g[m - 1] \o t[m]
  <2> HIDE DEF B
  <2>1. f[m] = IF m = 1 THEN s[m] ELSE f[m - 1] \o s[m] BY <1>2, FlattensAt, Zenon
  <2>2. g[m] = IF m = 1 THEN t[m] ELSE g[m - 1] \o t[m] BY <1>2, FlattensAt, Zenon
  <2> QED BY <2>1, <2>2, Zenon
<1>4. s[m] = t[m] /\ s[m] \in Seq(V) BY <1>2
<1>5. m # 1 => f[m - 1] = g[m - 1] /\ f[m - 1] \in Seq(V)
  <2> SUFFICES ASSUME m # 1 PROVE m - 1 \notin B /\ m - 1 \in 1 .. Len(s) OBVIOUS
  <2>1. m - 1 \in 1 .. Len(s) /\ ~(m <= m - 1) BY <1>2
  <2> HIDE DEF B
  <2> QED BY <1>1, <2>1
<1>6. f[m] = g[m] /\ f[m] \in Seq(V) BY <1>3, <1>4, <1>5
<1> QED BY <1>6

LEMMA FlattensExists ==
    ASSUME NEW V, NEW s \in Seq(Seq(V)) PROVE \E f : Flattens(s, f)
<1> DEFINE B == {n \in Nat : \E t \in Seq(Seq(V)) : Len(t) = n /\ ~\E f : Flattens(t, f)}
<1> SUFFICES ASSUME B # {} PROVE FALSE
  <2>1. Len(s) \in Nat OBVIOUS
  <2> QED BY <2>1
<1>1. PICK m \in B : \A y \in B : m <= y
  <2>1. B \in SUBSET Nat OBVIOUS
  <2> HIDE DEF B
  <2> QED BY <2>1, Smallest
<1>2. PICK t \in Seq(Seq(V)) : Len(t) = m /\ m \in Nat /\ ~\E f : Flattens(t, f) OBVIOUS
<1>3. m # 0
  <2> SUFFICES ASSUME m = 0 PROVE FALSE OBVIOUS
  <2> DEFINE e == <<>>
  <2>1. Flattens(t, e) BY <1>2 DEF Flattens
  <2> QED BY <1>2, <2>1
<1> DEFINE u == SubSeq(t, 1, m - 1)
<1>4. u \in Seq(Seq(V)) /\ Len(u) = m - 1 /\ \A i \in 1 .. m - 1 : u[i] = t[i]
  BY <1>2, <1>3
<1>5. m - 1 \notin B BY <1>1, <1>3
<1>6. m - 1 \in Nat BY <1>3
<1> HIDE DEF u
<1>7. PICK f : Flattens(u, f) BY <1>4, <1>5, <1>6
<1> HIDE DEF B
<1> DEFINE x == IF m = 1 THEN t[m] ELSE f[m - 1] \o t[m]
           g == [i \in 1 .. m |-> IF i = m THEN x ELSE f[i]]
<1>8. ASSUME NEW i \in 1 .. m PROVE g[i] = IF i = 1 THEN t[i] ELSE g[i - 1] \o t[i]
  <2>1. CASE i = m
    <3>1. g[i] = x BY <2>1
    <3>2. i # 1 => g[i - 1] = f[m - 1] BY <1>6, <2>1
    <3> QED BY <2>1, <3>1, <3>2
  <2>2. CASE i # m
    <3>1. i \in 1 .. Len(u) BY <1>2, <1>4, <2>2
    <3>2. f[i] = IF i = 1 THEN u[i] ELSE f[i - 1] \o u[i] BY <1>7, <3>1, FlattensAt
    <3>3. g[i] = f[i] /\ (i # 1 => g[i - 1] = f[i - 1]) BY <1>2, <1>4, <2>2, <3>1
    <3>4. u[i] = t[i] BY <1>4, <3>1
    <3> HIDE DEF g
    <3> QED BY <3>2, <3>3, <3>4
  <2> QED BY <2>1, <2>2
<1>9. Flattens(t, g)
  <2> DEFINE h == [i \in 1 .. m |-> IF i = 1 THEN t[i] ELSE g[i - 1] \o t[i]]
  <2>1. \A i \in 1 .. m : g[i] = h[i]
    <3> HIDE DEF g
    <3> QED BY <1>8
  <2>2. g = h
    <3> HIDE DEF x
    <3>1. g = [i \in 1 .. m |-> g[i]] OBVIOUS
    <3> HIDE DEF g
    <3>2. h = [i \in 1 .. m |-> h[i]] OBVIOUS
    <3> HIDE DEF h
    <3> QED BY <2>1, <3>1, <3>2
  <2> HIDE DEF g
  <2> QED BY <1>2, <2>2 DEF Flattens
<1> QED BY <1>2, <1>9

LEMMA FlattenIs ==
    ASSUME NEW V, NEW s \in Seq(Seq(V))
    PROVE  /\ FlattenSeq(s) \in Seq(V)
           /\ Len(s) = 0 => FlattenSeq(s) = <<>>
           /\ \A f : Flattens(s, f) /\ Len(s) # 0 => FlattenSeq(s) = f[Len(s)]
<1>1. Len(s) \in Nat OBVIOUS
<1>2. CASE Len(s) = 0 BY <1>2 DEF FlattenSeq
<1>3. CASE Len(s) # 0
  <2> DEFINE F == CHOOSE f : Flattens(s, f)
  <2>1. FlattenSeq(s) = F[Len(s)] BY <1>3, Zenon DEF FlattenSeq, Flattens
  <2>2. Flattens(s, F) BY FlattensExists
  <2> HIDE DEF F
  <2>3. \A f : Flattens(s, f) => \A i \in 1 .. Len(s) : F[i] = f[i] /\ F[i] \in Seq(V)
    <3> SUFFICES ASSUME NEW f, Flattens(s, f)
                 PROVE  \A i \in 1 .. Len(s) : F[i] = f[i] /\ F[i] \in Seq(V)
      OBVIOUS
    <3>1. Len(s) <= Len(s) /\ \A i \in 1 .. Len(s) : s[i] = s[i] BY <1>1
    <3> QED BY <2>2, <3>1, FlattensAgree
  <2> QED BY <1>1, <1>3, <2>1, <2>2, <2>3
<1> QED BY <1>1, <1>2, <1>3

LEMMA LastOf ==
    ASSUME NEW V, NEW s \in Seq(V), Len(s) # 0
    PROVE  \E q \in Seq(V) :
             /\ Len(q) = Len(s) - 1 /\ s[Len(s)] \in V
             /\ s = Append(q, s[Len(s)])
             /\ \A j \in 1 .. Len(q) : q[j] = s[j]
<1> DEFINE n == Len(s)
           q == SubSeq(s, 1, n - 1)
<1>1. n \in Nat /\ n - 1 \in Nat /\ n \in 1 .. n /\ 1 \in 1 .. n OBVIOUS
<1>2. q \in Seq(V) /\ Len(q) = n - 1 /\ s[n] \in V /\ \A j \in 1 .. n - 1 : q[j] = s[j]
  <2>1. \A j \in 1 .. n : s[j] \in V BY ElementOfSeq
  <2> HIDE DEF n, q
  <2>2. q = SubSeq(s, 1, n - 1) BY DEF q
  <2>3. \A j \in 1 .. n - 1 : s[j] \in V /\ 1 + j - 1 = j BY <1>1, <2>1
  <2>4. /\ q \in Seq(V) /\ Len(q) = IF 1 <= n - 1 THEN (n - 1) - 1 + 1 ELSE 0
        /\ \A j \in 1 .. (n - 1) - 1 + 1 : q[j] = s[1 + j - 1]
    BY <1>1, <2>2, <2>3, SubSeqProperties
  <2>5. Len(q) = n - 1 BY <1>1, <2>4
  <2>6. \A j \in 1 .. n - 1 : q[j] = s[j]
    <3> TAKE j \in 1 .. n - 1
    <3>1. j \in 1 .. (n - 1) - 1 + 1 BY <1>1
    <3>2. q[j] = s[1 + j - 1] BY <2>4, <3>1
    <3> QED BY <2>3, <3>2
  <2> QED BY <1>1, <2>1, <2>4, <2>5, <2>6
<1>3. s = SubSeq(s, 1, n) BY SubSeqFull
<1>4. SubSeq(s, 1, n) = q \o <<s[n]>> BY <1>1, SubSeqRecursiveSecond
<1> HIDE DEF q
<1>5. q \o <<s[n]>> = Append(q, s[n]) BY <1>2
<1> QED BY <1>2, <1>3, <1>4, <1>5

LEMMA FlattenAppend ==
    ASSUME NEW V, NEW s \in Seq(Seq(V)), NEW x \in Seq(V)
    PROVE  FlattenSeq(Append(s, x)) = FlattenSeq(s) \o x
<1> DEFINE t == Append(s, x)
           n == Len(s)
<1>1. /\ t \in Seq(Seq(V)) /\ Len(t) = n + 1 /\ n \in Nat /\ t[n + 1] = x
      /\ \A i \in 1 .. n : s[i] = t[i]
  OBVIOUS
<1> HIDE DEF t
<1>2. PICK f : Flattens(s, f) BY FlattensExists
<1>3. PICK g : Flattens(t, g) BY <1>1, FlattensExists
<1>4. FlattenSeq(t) = g[n + 1] BY <1>1, <1>3, FlattenIs
<1>5. g[n + 1] = IF n = 0 THEN x ELSE g[n] \o x
  <2>1. n + 1 \in 1 .. Len(t) BY <1>1
  <2>2. g[n + 1] = IF n + 1 = 1 THEN t[n + 1] ELSE g[n + 1 - 1] \o t[n + 1]
    BY <1>3, <2>1, FlattensAt
  <2> QED BY <1>1, <2>2
<1>6. CASE n = 0
  <2>1. FlattenSeq(s) = <<>> BY <1>6, FlattenIs
  <2> QED BY <1>4, <1>5, <1>6, <2>1 DEF t
<1>7. CASE n # 0
  <2>1. FlattenSeq(s) = f[n] BY <1>1, <1>2, <1>7, FlattenIs
  <2>2. f[n] = g[n]
    <3>1. \A i \in 1 .. Len(s) : f[i] = g[i]
      <4>1. Len(s) <= Len(t) /\ \A i \in 1 .. Len(s) : s[i] = t[i] BY <1>1
      <4>2. t \in Seq(Seq(V)) BY <1>1
      <4> HIDE DEF n
      <4>3. \A i \in 1 .. Len(s) : f[i] = g[i] /\ f[i] \in Seq(V)
        BY <1>2, <1>3, <4>1, <4>2, FlattensAgree
      <4> QED BY <4>3
    <3> QED BY <1>1, <1>7, <3>1
  <2> QED BY <1>4, <1>5, <1>7, <2>1, <2>2 DEF t
<1> QED BY <1>6, <1>7

LEMMA FlattenConcat ==
    ASSUME NEW V, NEW s \in Seq(Seq(V)), NEW t \in Seq(Seq(V))
    PROVE  FlattenSeq(s \o t) = FlattenSeq(s) \o FlattenSeq(t)
<1> DEFINE B == {n \in Nat : \E u \in Seq(Seq(V)) :
                   Len(u) = n /\ FlattenSeq(s \o u) # FlattenSeq(s) \o FlattenSeq(u)}
<1> SUFFICES ASSUME B # {} PROVE FALSE
  <2>1. Len(t) \in Nat OBVIOUS
  <2> QED BY <2>1
<1>1. PICK m \in B : \A y \in B : m <= y
  <2>1. B \in SUBSET Nat OBVIOUS
  <2> HIDE DEF B
  <2> QED BY <2>1, Smallest
<1>2. PICK u \in Seq(Seq(V)) :
        Len(u) = m /\ FlattenSeq(s \o u) # FlattenSeq(s) \o FlattenSeq(u)
  OBVIOUS
<1>3. FlattenSeq(s) \in Seq(V) BY FlattenIs
<1>4. CASE m = 0
  <2>1. u = <<>> /\ s \o u = s BY <1>2, <1>4
  <2>2. FlattenSeq(u) = <<>> BY <1>2, <1>4, FlattenIs
  <2> QED BY <1>2, <1>3, <2>1, <2>2
<1>5. CASE m # 0
  <2> DEFINE x == u[m]
  <2>1. m - 1 \in Nat /\ ~(m <= m - 1) BY <1>2, <1>5
  <2>2. PICK v \in Seq(Seq(V)) :
          Len(v) = m - 1 /\ x \in Seq(V) /\ u = Append(v, x)
    BY <1>2, <1>5, LastOf
  <2> HIDE DEF x
  <2>3. m - 1 \notin B
    <3> HIDE DEF B
    <3> QED BY <1>1, <2>1
  <2>4. FlattenSeq(s \o v) = FlattenSeq(s) \o FlattenSeq(v) BY <2>1, <2>2, <2>3
  <2> HIDE DEF B
  <2>5. FlattenSeq(v) \in Seq(V) BY FlattenIs
  <2>6. s \o u = Append(s \o v, x) /\ s \o v \in Seq(Seq(V)) BY <2>2
  <2>7. FlattenSeq(s \o u) = FlattenSeq(s \o v) \o x BY <2>2, <2>6, FlattenAppend
  <2>8. FlattenSeq(u) = FlattenSeq(v) \o x BY <2>2, FlattenAppend
  <2>9. (FlattenSeq(s) \o FlattenSeq(v)) \o x = FlattenSeq(s) \o (FlattenSeq(v) \o x)
    BY <1>3, <2>2, <2>5
  <2> QED BY <1>2, <2>4, <2>7, <2>8, <2>9
<1> QED BY <1>4, <1>5

LEMMA FlattenExtend ==
    ASSUME NEW V, NEW s \in Seq(Seq(V)), Len(s) # 0, NEW x \in V
    PROVE  LET t == [s EXCEPT ![Len(s)] = Append(@, x)]
           IN  /\ t \in Seq(Seq(V)) /\ Len(t) = Len(s)
               /\ \A j \in 1 .. Len(s) :
                    t[j] = IF j = Len(s) THEN Append(s[j], x) ELSE s[j]
               /\ FlattenSeq(t) = Append(FlattenSeq(s), x)
<1> DEFINE n == Len(s)
           l == s[n]
           t == [s EXCEPT ![n] = Append(@, x)]
<1>1. n \in Nat /\ n \in 1 .. n /\ n - 1 \in Nat OBVIOUS
<1> HIDE DEF t
<1>2. PICK q \in Seq(Seq(V)) :
        /\ Len(q) = n - 1 /\ l \in Seq(V) /\ s = Append(q, l)
        /\ \A j \in 1 .. Len(q) : q[j] = s[j]
  BY LastOf
<1> HIDE DEF l
<1>3. Append(l, x) \in Seq(V) /\ Append(l, x) = l \o <<x>> BY <1>2
<1>4. /\ t \in Seq(Seq(V)) /\ Len(t) = n
      /\ \A j \in 1 .. n : t[j] = IF j = n THEN Append(l, x) ELSE s[j]
  BY <1>1, <1>3 DEF l, t
<1> DEFINE u == Append(q, Append(l, x))
<1>5. /\ u \in Seq(Seq(V)) /\ Len(u) = n
      /\ \A j \in 1 .. n : u[j] = IF j = n THEN Append(l, x) ELSE s[j]
  <2> HIDE DEF n
  <2> QED BY <1>1, <1>2, <1>3
<1>6. t = u
  <2> HIDE DEF u
  <2>1. \A j \in 1 .. Len(t) : t[j] = u[j] BY <1>4, <1>5
  <2> QED BY <1>4, <1>5, <2>1, SeqEqual
<1>7. FlattenSeq(u) = FlattenSeq(q) \o Append(l, x) BY <1>2, <1>3, FlattenAppend
<1>8. FlattenSeq(s) = FlattenSeq(q) \o l BY <1>2, FlattenAppend
<1>9. FlattenSeq(q) \o (l \o <<x>>) = (FlattenSeq(q) \o l) \o <<x>>
  <2>1. FlattenSeq(q) \in Seq(V) BY <1>2, FlattenIs
  <2>2. <<x>> \in Seq(V) OBVIOUS
  <2> QED BY <1>2, <2>1, <2>2, ConcatAssociative
<1>10. FlattenSeq(s) \in Seq(V) BY FlattenIs
<1>11. FlattenSeq(s) \o <<x>> = Append(FlattenSeq(s), x) BY <1>10
<1>12. FlattenSeq(t) = Append(FlattenSeq(s), x)
  BY <1>3, <1>6, <1>7, <1>8, <1>9, <1>11
<1>13. \A j \in 1 .. n : t[j] = IF j = n THEN Append(s[j], x) ELSE s[j]
  BY <1>1, <1>4 DEF l
<1> QED BY <1>4, <1>12, <1>13, Zenon DEF t

\* f is the function in Pieces(chunk), for the first n characters.
Cuts(chunk, n, f) ==
    f = [i \in 0 .. n |-> IF i = 0 THEN <<>> ELSE Cut(chunk, i, f[i - 1])]

LEMMA CutsAt ==
    ASSUME NEW chunk, NEW n, NEW f, Cuts(chunk, n, f), NEW i \in 0 .. n
    PROVE  f[i] = IF i = 0 THEN <<>> ELSE Cut(chunk, i, f[i - 1])
<1> DEFINE F == [j \in 0 .. n |-> IF j = 0 THEN <<>> ELSE Cut(chunk, j, f[j - 1])]
<1>1. f = F BY DEF Cuts
<1>2. F[i] = IF i = 0 THEN <<>> ELSE Cut(chunk, i, f[i - 1]) OBVIOUS
<1> HIDE DEF F
<1> QED BY <1>1, <1>2

LEMMA CutsExists == ASSUME NEW chunk, NEW n \in Nat PROVE \E f : Cuts(chunk, n, f)
<1> DEFINE B == {i \in Nat : ~\E f : Cuts(chunk, i, f)}
<1> SUFFICES ASSUME B # {} PROVE FALSE OBVIOUS
<1>1. PICK m \in B : \A y \in B : m <= y
  <2>1. B \in SUBSET Nat OBVIOUS
  <2> HIDE DEF B
  <2> QED BY <2>1, Smallest
<1>2. m \in Nat /\ ~\E f : Cuts(chunk, m, f) OBVIOUS
<1>3. m # 0
  <2> SUFFICES ASSUME m = 0 PROVE FALSE OBVIOUS
  <2> DEFINE e == [i \in 0 .. 0 |-> <<>>]
  <2>1. Cuts(chunk, m, e)
    <3>1. e = [i \in 0 .. 0 |-> IF i = 0 THEN <<>> ELSE Cut(chunk, i, e[i - 1])] OBVIOUS
    <3> HIDE DEF e
    <3> QED BY <3>1 DEF Cuts
  <2> QED BY <1>2, <2>1
<1>4. m - 1 \in Nat /\ m - 1 \notin B BY <1>1, <1>2, <1>3
<1>5. PICK f : Cuts(chunk, m - 1, f) BY <1>4
<1> HIDE DEF B
<1> DEFINE x == Cut(chunk, m, f[m - 1])
           g == [i \in 0 .. m |-> IF i = m THEN x ELSE f[i]]
<1>6. ASSUME NEW i \in 0 .. m
      PROVE  g[i] = IF i = 0 THEN <<>> ELSE Cut(chunk, i, g[i - 1])
  <2>1. CASE i = m
    <3>1. g[i] = x /\ g[i - 1] = f[m - 1] BY <1>2, <1>3, <1>4, <2>1
    <3> HIDE DEF g
    <3> QED BY <1>3, <2>1, <3>1
  <2>2. CASE i # m
    <3>1. i \in 0 .. m - 1 BY <1>2, <1>4, <2>2
    <3>2. f[i] = IF i = 0 THEN <<>> ELSE Cut(chunk, i, f[i - 1]) BY <1>5, <3>1, CutsAt
    <3>3. g[i] = f[i] /\ (i # 0 => g[i - 1] = f[i - 1]) BY <1>2, <2>2, <3>1
    <3> HIDE DEF g
    <3> QED BY <3>2, <3>3
  <2> QED BY <2>1, <2>2
<1>7. Cuts(chunk, m, g)
  <2> DEFINE h == [i \in 0 .. m |-> IF i = 0 THEN <<>> ELSE Cut(chunk, i, g[i - 1])]
  <2>1. \A i \in 0 .. m : g[i] = h[i]
    <3> HIDE DEF g
    <3> QED BY <1>6
  <2>2. g = [i \in 0 .. m |-> g[i]]
    <3> HIDE DEF x
    <3> QED OBVIOUS
  <2>3. g = h
    <3> HIDE DEF g
    <3>1. h = [i \in 0 .. m |-> h[i]] OBVIOUS
    <3> HIDE DEF h
    <3> QED BY <2>1, <2>2, <3>1
  <2> HIDE DEF g
  <2> QED BY <2>3 DEF Cuts
<1> QED BY <1>2, <1>7

-----------------------------------------------------------------------------
(* How much of a sequence of sequences lies before a place in it. *)

Off(p, e) == Len(FlattenSeq(SubSeq(p, 1, e)))

LEMMA Prefix ==
    ASSUME NEW V, NEW p \in Seq(V), NEW e \in 0 .. Len(p)
    PROVE  /\ SubSeq(p, 1, e) \in Seq(V) /\ Len(SubSeq(p, 1, e)) = e
           /\ \A j \in 1 .. e : SubSeq(p, 1, e)[j] = p[j]
<1> DEFINE q == SubSeq(p, 1, e)
<1>1. \A j \in 1 .. e : p[j] \in V /\ 1 + j - 1 = j
  <2> TAKE j \in 1 .. e
  <2>1. j \in 1 .. Len(p) OBVIOUS
  <2> QED BY <2>1, ElementOfSeq
<1>2. 1 \in Int /\ e \in Int OBVIOUS
<1>3. /\ q \in Seq(V) /\ Len(q) = IF 1 <= e THEN e - 1 + 1 ELSE 0
      /\ \A j \in 1 .. e - 1 + 1 : q[j] = p[1 + j - 1]
  BY <1>1, <1>2, SubSeqProperties
<1> HIDE DEF q
<1>4. Len(q) = e BY <1>3
<1>5. \A j \in 1 .. e : q[j] = p[j]
  <2> TAKE j \in 1 .. e
  <2>1. j \in 1 .. e - 1 + 1 OBVIOUS
  <2> QED BY <1>1, <1>3, <2>1
<1> QED BY <1>3, <1>4, <1>5 DEF q

LEMMA PrefixSame ==
    ASSUME NEW V, NEW p \in Seq(V), NEW q \in Seq(V), NEW e \in Nat,
           e <= Len(p), e <= Len(q), \A j \in 1 .. e : p[j] = q[j]
    PROVE  SubSeq(p, 1, e) = SubSeq(q, 1, e)
<1> DEFINE s == SubSeq(p, 1, e)
           t == SubSeq(q, 1, e)
<1>1. e \in 0 .. Len(p) /\ e \in 0 .. Len(q) OBVIOUS
<1>2. s \in Seq(V) /\ Len(s) = e /\ \A j \in 1 .. e : s[j] = p[j] BY <1>1, Prefix
<1>3. t \in Seq(V) /\ Len(t) = e /\ \A j \in 1 .. e : t[j] = q[j] BY <1>1, Prefix
<1> HIDE DEF s, t
<1>4. \A j \in 1 .. e : s[j] = t[j] BY <1>2, <1>3
<1>5. s = t BY <1>2, <1>3, <1>4, SeqEqual
<1> QED BY <1>5 DEF s, t

LEMMA Offsets ==
    ASSUME NEW V, NEW p \in Seq(Seq(V))
    PROVE  /\ Off(p, 0) = 0
           /\ Off(p, Len(p)) = Len(FlattenSeq(p))
           /\ \A e \in 0 .. Len(p) : Off(p, e) \in Nat
           /\ \A e \in 1 .. Len(p) : Off(p, e) = Off(p, e - 1) + Len(p[e])
<1> DEFINE W == Seq(V)
<1> HIDE DEF W
<1>1. p \in Seq(W) BY DEF W
<1>2. ASSUME NEW e \in 0 .. Len(p)
      PROVE  SubSeq(p, 1, e) \in Seq(Seq(V)) /\ FlattenSeq(SubSeq(p, 1, e)) \in Seq(V)
  <2>1. SubSeq(p, 1, e) \in Seq(Seq(V)) BY <1>1, Prefix DEF W
  <2> QED BY <2>1, FlattenIs
<1>3. \A e \in 0 .. Len(p) : Off(p, e) \in Nat
  <2> TAKE e \in 0 .. Len(p)
  <2>1. FlattenSeq(SubSeq(p, 1, e)) \in Seq(V) BY <1>2
  <2> QED BY <2>1, LenProperties DEF Off
<1>4. Off(p, 0) = 0
  <2>1. SubSeq(p, 1, 0) = <<>> BY SubSeqEmpty
  <2>2. Len(SubSeq(p, 1, 0)) = 0 /\ 0 \in 0 .. Len(p) BY <2>1
  <2>3. FlattenSeq(SubSeq(p, 1, 0)) = <<>> BY <1>2, <2>2, FlattenIs
  <2> QED BY <2>3 DEF Off
<1>5. SubSeq(p, 1, Len(p)) = p BY SubSeqFull
<1>6. ASSUME NEW e \in 1 .. Len(p) PROVE Off(p, e) = Off(p, e - 1) + Len(p[e])
  <2> DEFINE s == SubSeq(p, 1, e - 1)
             t == SubSeq(p, 1, e)
             x == p[e]
  <2>1. e - 1 \in 0 .. Len(p) /\ e \in 0 .. Len(p) /\ 1 \in 1 .. Len(p) OBVIOUS
  <2>2. t = s \o <<x>> BY <2>1, SubSeqRecursiveSecond
  <2>3. s \in Seq(Seq(V)) /\ FlattenSeq(s) \in Seq(V) BY <1>2, <2>1
  <2>4. x \in Seq(V) BY ElementOfSeq
  <2> HIDE DEF s, t, x
  <2>5. t = Append(s, x) BY <2>2, <2>3, <2>4
  <2>6. FlattenSeq(t) = FlattenSeq(s) \o x BY <2>3, <2>4, <2>5, FlattenAppend
  <2>7. Len(FlattenSeq(t)) = Len(FlattenSeq(s)) + Len(x)
    BY <2>3, <2>4, <2>6, ConcatProperties
  <2> QED BY <2>7 DEF Off, s, t, x
<1> QED BY <1>3, <1>4, <1>5, <1>6 DEF Off

LEMMA OffConcat ==
    ASSUME NEW V, NEW s \in Seq(Seq(V)), NEW t \in Seq(Seq(V)), NEW e \in 0 .. Len(t)
    PROVE  Off(s \o t, Len(s) + e) = Len(FlattenSeq(s)) + Off(t, e)
<1> DEFINE W == Seq(V)
           n == Len(s)
           u == SubSeq(s \o t, 1, n + e)
           v == SubSeq(t, 1, e)
<1>1. /\ s \o t \in Seq(W) /\ Len(s \o t) = n + Len(t) /\ n \in Nat /\ Len(t) \in Nat
      /\ \A j \in 1 .. n + Len(t) : (s \o t)[j] = IF j <= n THEN s[j] ELSE t[j - n]
  BY ConcatProperties, LenProperties
<1> HIDE DEF W
<1>2. v \in Seq(W) /\ Len(v) = e /\ \A j \in 1 .. e : v[j] = t[j]
  <2>1. t \in Seq(W) BY DEF W
  <2> QED BY <2>1, Prefix
<1>3. u \in Seq(W) /\ Len(u) = n + e /\ \A j \in 1 .. n + e : u[j] = (s \o t)[j]
  <2>1. n + e \in 0 .. Len(s \o t) BY <1>1
  <2> HIDE DEF n
  <2> QED BY <1>1, <2>1, Prefix
<1>4. s \in Seq(W) BY DEF W
<1> HIDE DEF u, v, n
<1>5. /\ s \o v \in Seq(W) /\ Len(s \o v) = n + e
      /\ \A j \in 1 .. n + e : (s \o v)[j] = IF j <= n THEN s[j] ELSE v[j - n]
  BY <1>2, <1>4, ConcatProperties DEF n
<1>6. ASSUME NEW j \in 1 .. n + e PROVE u[j] = (s \o v)[j]
  <2>1. j \in 1 .. n + Len(t) BY <1>1
  <2>2. u[j] = IF j <= n THEN s[j] ELSE t[j - n] BY <1>1, <1>3, <2>1
  <2>3. ~(j <= n) => v[j - n] = t[j - n]
    <3>1. ~(j <= n) => j - n \in 1 .. e BY <1>1
    <3> QED BY <1>2, <3>1
  <2>4. (s \o v)[j] = IF j <= n THEN s[j] ELSE v[j - n] BY <1>5
  <2> QED BY <2>2, <2>3, <2>4, Zenon
<1>7. u = s \o v BY <1>3, <1>5, <1>6, SeqEqual
<1>8. v \in Seq(Seq(V)) BY <1>2 DEF W
<1>9. FlattenSeq(u) = FlattenSeq(s) \o FlattenSeq(v) BY <1>7, <1>8, FlattenConcat
<1>10. FlattenSeq(s) \in Seq(V) /\ FlattenSeq(v) \in Seq(V) BY <1>8, FlattenIs
<1>11. Len(FlattenSeq(u)) = Len(FlattenSeq(s)) + Len(FlattenSeq(v))
  BY <1>9, <1>10, ConcatProperties
<1> QED BY <1>11 DEF Off, u, v, n

-----------------------------------------------------------------------------
(* The log as one stream of bytes. *)

Fragments == [line : Nat, part : Nat]

\* The j-th byte, and how many of the first k are not newlines.
At(j) == IF j % 4 = 0 THEN Newline ELSE [line |-> (j \div 4) + 1, part |-> j % 4]
Texts(k) == k - (k \div 4)

LogFrom(k, n) == [i \in 1 .. n |-> At(k + i)]

LEMMA TextAt ==
    ASSUME NEW n
    PROVE  /\ Text(n) = [line |-> (n + 2) \div 3, part |-> ((n - 1) % 3) + 1]
           /\ (n - 1) % 3 = 2 => Text(n).part = 3
<1>1. Text(n) = [line |-> (n + 2) \div 3, part |-> ((n - 1) % 3) + 1] BY Zenon DEF Text
<1>2. Text(n).part = ((n - 1) % 3) + 1 BY <1>1
<1>3. (n - 1) % 3 = 2 => ((n - 1) % 3) + 1 = 3
  <2> DEFINE d == (n - 1) % 3
  <2>1. d = 2 => d + 1 = 3 OBVIOUS
  <2> QED BY <2>1, Zenon
<1> QED BY <1>1, <1>2, <1>3, Zenon

LEMMA TextIs ==
    ASSUME NEW n \in Nat \ {0}
    PROVE  /\ Text(n) \in Fragments /\ Text(n).line # 0
           /\ Text(n).part = 3 => Text(n + 1).part = 1
<1>1. (n + 2) \div 3 \in Nat /\ (n + 2) \div 3 # 0 /\ (n - 1) % 3 \in 0 .. 2 OBVIOUS
<1>2. (n - 1) % 3 = 2 => ((n + 1) - 1) % 3 = 0 OBVIOUS
<1> QED BY <1>1, <1>2 DEF Text, Fragments

LEMMA Byte ==
    ASSUME NEW k \in Nat
    PROVE  /\ Texts(k) \in Nat
           /\ At(k + 1) \in Fragments
           /\ At(k + 1) = Newline =>
                Texts(k + 1) = Texts(k) /\ Text(Texts(k + 1)).part = 3
           /\ At(k + 1) # Newline =>
                /\ Texts(k + 1) = Texts(k) + 1
                /\ At(k + 1) = Text(Texts(k + 1))
                /\ At(k) # Newline => At(k).line = At(k + 1).line
<1> DEFINE q == k \div 4
           r == k % 4
<1>1. q \in Nat /\ r \in 0 .. 3 /\ k = 4 * q + r OBVIOUS
<1>2. Texts(k) = 3 * q + r /\ Texts(k) \in Nat BY <1>1 DEF Texts
<1>3. At(k) = IF r = 0 THEN Newline ELSE [line |-> q + 1, part |-> r] BY DEF At
<1> HIDE DEF q, r
<1>4. CASE r = 3
  <2>1. (k + 1) \div 4 = q + 1 /\ (k + 1) % 4 = 0 BY <1>1, <1>4
  <2>2. Texts(k + 1) = Texts(k) BY <1>1, <1>2, <1>4, <2>1 DEF Texts
  <2>3. At(k + 1) = Newline BY <2>1 DEF At
  <2>4. Text(Texts(k + 1)).part = 3
    <3>1. Texts(k + 1) = 3 * q + 3 BY <1>2, <1>4, <2>2
    <3>2. ((3 * q + 3) - 1) % 3 = 2 BY <1>1
    <3>3. (Texts(k + 1) - 1) % 3 = 2 BY <3>1, <3>2, Zenon
    <3> QED BY <3>3, TextAt, Zenon
  <2> QED BY <1>2, <2>2, <2>3, <2>4 DEF Newline, Fragments
<1>5. CASE r # 3
  <2>1. (k + 1) \div 4 = q /\ (k + 1) % 4 = r + 1 BY <1>1, <1>5
  <2>2. Texts(k + 1) = Texts(k) + 1 BY <1>1, <1>2, <2>1 DEF Texts
  <2>3. At(k + 1) = [line |-> q + 1, part |-> r + 1] BY <1>1, <2>1 DEF At
  <2>4. Text(Texts(k + 1)) = [line |-> q + 1, part |-> r + 1]
    <3>1. Texts(k + 1) = 3 * q + r + 1 BY <1>1, <1>2, <2>2
    <3>2. ((3 * q + r + 1) + 2) \div 3 = q + 1 BY <1>1, <1>5
    <3>3. ((3 * q + r + 1) - 1) % 3 = r BY <1>1, <1>5
    <3>4. (Texts(k + 1) + 2) \div 3 = q + 1 /\ (Texts(k + 1) - 1) % 3 = r
      BY <3>1, <3>2, <3>3, Zenon
    <3> QED BY <3>4, TextAt, Zenon
  <2>5. At(k + 1) \in Fragments BY <1>1, <2>3 DEF Fragments
  <2>6. At(k + 1) # Newline
    <3>1. At(k + 1).line = q + 1 /\ Newline.line = 0 BY <2>3 DEF Newline
    <3> QED BY <1>1, <3>1
  <2>7. At(k) # Newline => At(k).line = At(k + 1).line
    <3>1. At(k) # Newline => At(k).line = q + 1 BY <1>3
    <3>2. At(k + 1).line = q + 1 BY <2>3
    <3> QED BY <3>1, <3>2
  <2> QED BY <1>2, <2>2, <2>3, <2>4, <2>5, <2>6, <2>7
<1> QED BY <1>4, <1>5

LEMMA LogFromIs ==
    ASSUME NEW k \in Nat, NEW m \in Nat
    PROVE  /\ LogFrom(k, m) \in Seq(Fragments) /\ Len(LogFrom(k, m)) = m
           /\ \A i \in 1 .. m : LogFrom(k, m)[i] = At(k + i)
<1>1. \A i \in 1 .. m : At(k + i) \in Fragments
  <2> TAKE i \in 1 .. m
  <2>1. k + i - 1 \in Nat /\ (k + i - 1) + 1 = k + i OBVIOUS
  <2> QED BY <2>1, Byte
<1> QED BY <1>1 DEF LogFrom

-----------------------------------------------------------------------------
(* A chunk decoded. *)

\* The n-th byte of the text is half a character in a chunk that has those after
\* the a-th and up to the b-th.
Half(a, b, n) ==
    \/ n = b /\ Text(n).part = 2
    \/ n = a + 1 /\ Text(n).part = 3

Shown(a, b, n) == IF Half(a, b, n) THEN Replacement ELSE Text(n)

LEMMA TornIsHalf ==
    ASSUME NEW k \in Nat, NEW m \in Nat, NEW i \in 1 .. m, At(k + i) # Newline
    PROVE  Torn(LogFrom(k, m), i) <=> Half(Texts(k), Texts(k + m), Texts(k + i))
<1> DEFINE a == Texts(k)
           b == Texts(k + m)
           n == Texts(k + i)
           c == LogFrom(k, m)
           q == (k + i) \div 4
           r == (k + i) % 4
           q1 == k \div 4
           r1 == k % 4
           q2 == (k + m) \div 4
           r2 == (k + m) % 4
<1>1. q \in Nat /\ r \in 0 .. 3 /\ k + i = 4 * q + r OBVIOUS
<1>2. q1 \in Nat /\ r1 \in 0 .. 3 /\ k = 4 * q1 + r1 OBVIOUS
<1>3. q2 \in Nat /\ r2 \in 0 .. 3 /\ k + m = 4 * q2 + r2 OBVIOUS
<1>4. n = 3 * q + r /\ a = 3 * q1 + r1 /\ b = 3 * q2 + r2
  BY <1>1, <1>2, <1>3 DEF Texts
<1>5. c[i] = At(k + i) /\ Len(c) = m BY LogFromIs
<1>6. At(k + i) = [line |-> q + 1, part |-> r] /\ r # 0 BY DEF At
<1>7. c[i].part = r BY <1>5, <1>6
<1>8. Text(n).part = r
  <2>1. k + i - 1 \in Nat /\ (k + i - 1) + 1 = k + i OBVIOUS
  <2>2. At(k + i) = Text(n) BY <2>1, Byte
  <2> QED BY <1>6, <2>2
<1> HIDE DEF a, b, n, c, q, r, q1, r1, q2, r2
<1>9. r = 2 => (i = m <=> n = b) BY <1>1, <1>3, <1>4
<1>10. r = 3 => (i = 1 <=> n = a + 1) BY <1>1, <1>2, <1>4
<1>11. Torn(c, i) <=> (i = m /\ r = 2) \/ (i = 1 /\ r = 3) BY <1>5, <1>7 DEF Torn
<1>12. Half(a, b, n) <=> (n = b /\ r = 2) \/ (n = a + 1 /\ r = 3) BY <1>8 DEF Half
<1> QED BY <1>9, <1>10, <1>11, <1>12 DEF a, b, c, n

LEMMA DecodedIs ==
    ASSUME NEW k \in Nat, NEW m \in Nat, NEW c, c = Decoded(LogFrom(k, m))
    PROVE  /\ Len(c) = m
           /\ \A i \in 1 .. m :
                /\ At(k + i) = Newline => c[i] = Newline
                /\ At(k + i) # Newline =>
                     /\ c[i] = Shown(Texts(k), Texts(k + m), Texts(k + i))
                     /\ c[i] \in Fragments /\ c[i] # Newline
<1> DEFINE l == LogFrom(k, m)
<1>1. l \in Seq(Fragments) /\ Len(l) = m /\ \A i \in 1 .. m : l[i] = At(k + i)
  BY LogFromIs
<1>2. DOMAIN l = 1 .. m BY <1>1
<1>3. c = [i \in DOMAIN l |-> IF Torn(l, i) THEN Replacement ELSE l[i]] BY DEF Decoded
<1> HIDE DEF l
<1>4. Len(c) = m /\ \A i \in 1 .. m : c[i] = IF Torn(l, i) THEN Replacement ELSE l[i]
  BY <1>2, <1>3
<1>5. ASSUME NEW i \in 1 .. m, At(k + i) = Newline PROVE c[i] = Newline
  <2>1. l[i] = Newline BY <1>1, <1>5
  <2>2. Newline.part = 0 BY DEF Newline
  <2>3. ~Torn(l, i) BY <2>1, <2>2 DEF Torn
  <2> QED BY <1>4, <2>1, <2>3
<1>6. ASSUME NEW i \in 1 .. m, At(k + i) # Newline
      PROVE  /\ c[i] = Shown(Texts(k), Texts(k + m), Texts(k + i))
             /\ c[i] \in Fragments /\ c[i] # Newline
  <2>1. k + i - 1 \in Nat /\ (k + i - 1) + 1 = k + i OBVIOUS
  <2>2. At(k + i) = Text(Texts(k + i)) /\ At(k + i) \in Fragments BY <1>6, <2>1, Byte
  <2>3. Torn(l, i) <=> Half(Texts(k), Texts(k + m), Texts(k + i))
    BY <1>6, TornIsHalf DEF l
  <2>4. c[i] = IF Torn(l, i) THEN Replacement ELSE At(k + i) BY <1>1, <1>4
  <2>5. Replacement \in Fragments /\ Replacement # Newline
    <3>1. Replacement.part = 1 /\ Newline.part = 0 BY DEF Replacement, Newline
    <3> QED BY <3>1 DEF Replacement, Fragments
  <2> QED BY <1>6, <2>2, <2>3, <2>4, <2>5 DEF Shown
<1> QED BY <1>4, <1>5, <1>6

-----------------------------------------------------------------------------
(* A chunk cut into pieces. *)

\* The e-th piece is a stretch of one line that starts where the chunk or a line
\* does; x is how much of the text was cut so far.
GoodPiece(a, b, x, p, e) ==
    LET from == a + Off(p, e - 1) IN
    /\ Len(p[e]) # 0
    /\ from = a \/ Text(from).part = 3
    /\ from + Len(p[e]) <= x
    /\ Text(from + 1).line = Text(from + Len(p[e])).line
    /\ \A j \in 1 .. Len(p[e]) : p[e][j] = Shown(a, b, from + j)

\* What the pieces are of the first i of m bytes from the k-th on.
GoodPieces(k, m, i, p) ==
    /\ p \in Seq(Seq(Fragments))
    /\ Len(FlattenSeq(p)) = Texts(k + i) - Texts(k)
    /\ \A e \in 1 .. Len(p) : GoodPiece(Texts(k), Texts(k + m), Texts(k + i), p, e)
    /\ i # 0 /\ At(k + i) # Newline => Len(p) # 0

\* A piece is as good in a sequence that is the same up to it.
LEMMA PieceStays ==
    ASSUME NEW p \in Seq(Seq(Fragments)), NEW r \in Seq(Seq(Fragments)),
           NEW e \in 1 .. Len(p), e <= Len(r), \A d \in 1 .. e : p[d] = r[d],
           NEW a \in Nat, NEW b, NEW x \in Nat, NEW y \in Nat, x <= y,
           GoodPiece(a, b, x, p, e)
    PROVE  GoodPiece(a, b, y, r, e)
<1> DEFINE W == Seq(Fragments)
<1> HIDE DEF W
<1>1. p \in Seq(W) /\ r \in Seq(W) BY DEF W
<1>2. e - 1 \in Nat /\ e - 1 <= Len(p) /\ e - 1 <= Len(r) /\ e \in 1 .. e
  BY <1>1, LenProperties
<1>3. \A d \in 1 .. e - 1 : p[d] = r[d] OBVIOUS
<1>4. SubSeq(p, 1, e - 1) = SubSeq(r, 1, e - 1) BY <1>1, <1>2, <1>3, PrefixSame
<1>5. Off(p, e - 1) = Off(r, e - 1) BY <1>4 DEF Off
<1>6. p[e] = r[e] BY <1>2
<1>7. Off(p, e - 1) \in Nat
  <2>1. e - 1 \in 0 .. Len(p) BY <1>2
  <2> QED BY <2>1, Offsets
<1>8. Len(p[e]) \in Nat
  <2>1. p[e] \in Seq(Fragments) BY ElementOfSeq
  <2> QED BY <2>1, LenProperties
<1>9. a + Off(p, e - 1) + Len(p[e]) <= x => a + Off(p, e - 1) + Len(p[e]) <= y
  BY <1>7, <1>8
<1> QED BY <1>5, <1>6, <1>9 DEF GoodPiece

LEMMA CutGood ==
    ASSUME NEW k \in Nat, NEW m \in Nat, NEW i \in 1 .. m, NEW p,
           GoodPieces(k, m, i - 1, p), NEW c, c = Decoded(LogFrom(k, m))
    PROVE  GoodPieces(k, m, i, Cut(c, i, p))
<1> DEFINE j == k + i - 1
           a == Texts(k)
           b == Texts(k + m)
           y == Texts(j)
           x == c[i]
           L == Len(p)
           r == Cut(c, i, p)
<1>1. /\ j \in Nat /\ k + i = j + 1 /\ k + (i - 1) = j /\ i \in Nat /\ i - 1 \in Nat
      /\ i # 1 => j - 1 \in Nat /\ (j - 1) + 1 = j /\ i - 1 \in 1 .. m /\ i - 1 # 0
      /\ i = 1 => j = k
  OBVIOUS
<1>2. /\ At(k + i) = Newline => x = Newline
      /\ At(k + i) # Newline =>
           x = Shown(a, b, Texts(k + i)) /\ x \in Fragments /\ x # Newline
  BY DecodedIs
<1>3. i # 1 => (At(j) = Newline <=> c[i - 1] = Newline)
  <2> SUFFICES ASSUME i # 1 PROVE At(j) = Newline <=> c[i - 1] = Newline OBVIOUS
  <2>1. i - 1 \in 1 .. m /\ k + (i - 1) = j BY <1>1
  <2>2. At(k + (i - 1)) = Newline <=> c[i - 1] = Newline BY <2>1, DecodedIs
  <2> QED BY <2>1, <2>2
<1>4. /\ y \in Nat /\ a \in Nat /\ b \in Nat
      /\ At(k + i) = Newline => Texts(k + i) = y
      /\ At(k + i) # Newline => /\ Texts(k + i) = y + 1
                                /\ At(k + i) = Text(y + 1)
                                /\ At(j) # Newline => At(j).line = At(k + i).line
  <2>1. k + m \in Nat OBVIOUS
  <2> QED BY <1>1, <2>1, Byte
<1>5. /\ p \in Seq(Seq(Fragments)) /\ Len(FlattenSeq(p)) = y - a
      /\ \A e \in 1 .. L : GoodPiece(a, b, y, p, e)
      /\ i # 1 /\ At(j) # Newline => L # 0
  <2>1. i # 1 => i - 1 # 0 BY <1>1
  <2> QED BY <1>1, <2>1 DEF GoodPieces
<1>6. r = IF x = Newline THEN p
          ELSE IF i = 1 \/ At(j) = Newline THEN Append(p, <<x>>)
          ELSE [p EXCEPT ![L] = Append(@, x)]
  <2> HIDE DEF j
  <2>1. (i = 1 \/ c[i - 1] = Newline) <=> (i = 1 \/ At(j) = Newline) BY <1>3
  <2> QED BY <2>1 DEF Cut
<1>7. Off(p, L) = y - a /\ L \in Nat /\ Off(p, 0) = 0
      /\ \A e \in 1 .. L : /\ Off(p, e - 1) \in Nat /\ Len(p[e]) \in Nat
                           /\ p[e] \in Seq(Fragments)
                           /\ Off(p, e) = Off(p, e - 1) + Len(p[e])
  <2>1. Off(p, L) = y - a /\ L \in Nat /\ Off(p, 0) = 0 BY <1>5, Offsets, LenProperties
  <2>2. ASSUME NEW e \in 1 .. L
        PROVE  Off(p, e - 1) \in Nat /\ Len(p[e]) \in Nat /\ p[e] \in Seq(Fragments)
               /\ Off(p, e) = Off(p, e - 1) + Len(p[e])
    <3>1. e - 1 \in 0 .. Len(p) BY <2>1
    <3>2. p[e] \in Seq(Fragments) BY <1>5, ElementOfSeq
    <3> QED BY <1>5, <3>1, <3>2, Offsets, LenProperties
  <2> QED BY <2>1, <2>2
<1> HIDE DEF r, x, y, a, b, j
<1>8. CASE At(k + i) = Newline
  <2>1. r = p /\ Texts(k + i) = y BY <1>2, <1>4, <1>6, <1>8
  <2> QED BY <1>5, <1>8, <2>1 DEF GoodPieces, r, a, b
<1>9. ASSUME At(k + i) # Newline, r \in Seq(Seq(Fragments)),
             FlattenSeq(r) = Append(FlattenSeq(p), x), Len(r) # 0,
             \A e \in 1 .. Len(r) : GoodPiece(a, b, y + 1, r, e)
      PROVE  GoodPieces(k, m, i, r)
  <2>1. FlattenSeq(p) \in Seq(Fragments) BY <1>5, FlattenIs
  <2>2. Len(FlattenSeq(r)) = (y + 1) - a BY <1>2, <1>4, <1>5, <1>9, <2>1
  <2>3. Texts(k + i) = y + 1 BY <1>4, <1>9
  <2>4. Len(FlattenSeq(r)) = Texts(k + i) - a BY <2>2, <2>3, Zenon
  <2>5. \A e \in 1 .. Len(r) : GoodPiece(a, b, Texts(k + i), r, e) BY <1>9, <2>3, Zenon
  <2> QED BY <1>9, <2>4, <2>5, Zenon DEF GoodPieces, a, b
<1>10. CASE At(k + i) # Newline /\ (i = 1 \/ At(j) = Newline)
  <2> DEFINE f == <<x>>
  <2>1. x \in Fragments /\ r = Append(p, f) BY <1>2, <1>6, <1>10
  <2>2. f \in Seq(Fragments) /\ Len(f) = 1 /\ f[1] = x BY <2>1
  <2> HIDE DEF f
  <2>3. /\ r \in Seq(Seq(Fragments)) /\ Len(r) = L + 1 /\ r[L + 1] = f
        /\ \A e \in 1 .. L : r[e] = p[e]
    BY <1>5, <2>1, <2>2
  <2>4. FlattenSeq(r) = Append(FlattenSeq(p), x)
    <3>1. FlattenSeq(r) = FlattenSeq(p) \o f BY <1>5, <2>1, <2>2, FlattenAppend
    <3>2. FlattenSeq(p) \in Seq(Fragments) BY <1>5, FlattenIs
    <3>3. FlattenSeq(p) \o f = Append(FlattenSeq(p), x) BY <2>1, <3>2 DEF f
    <3> QED BY <3>1, <3>3
  <2>5. ASSUME NEW e \in 1 .. L PROVE GoodPiece(a, b, y + 1, r, e)
    <3>1. \A d \in 1 .. e : d \in 1 .. L BY <1>7
    <3>2. \A d \in 1 .. e : p[d] = r[d] BY <2>3, <3>1
    <3>3. e <= Len(r) /\ y + 1 \in Nat /\ y <= y + 1 /\ e \in 1 .. Len(p)
      BY <1>4, <1>7, <2>3
    <3>4. GoodPiece(a, b, y, p, e) BY <1>5
    <3> QED BY <1>4, <1>5, <2>3, <3>2, <3>3, <3>4, PieceStays
  <2>6. GoodPiece(a, b, y + 1, r, L + 1)
    <3>1. Off(r, L) = Off(p, L)
      <4> DEFINE W == Seq(Fragments)
      <4> HIDE DEF W
      <4>1. p \in Seq(W) /\ r \in Seq(W) BY <1>5, <2>3 DEF W
      <4>2. L \in Nat /\ L <= Len(p) /\ L <= Len(r) BY <1>7, <2>3
      <4>3. \A d \in 1 .. L : p[d] = r[d] BY <2>3
      <4>4. SubSeq(p, 1, L) = SubSeq(r, 1, L) BY <4>1, <4>2, <4>3, PrefixSame
      <4> QED BY <4>4 DEF Off
    <3>2. (L + 1) - 1 = L /\ a + Off(r, L) = y BY <1>4, <1>7, <3>1
    <3>3. y = a \/ Text(y).part = 3
      <4>1. CASE i = 1 BY <1>1, <4>1 DEF a, y
      <4>2. CASE i # 1
        <5>1. At(j) = Newline BY <1>10, <4>2
        <5>2. j - 1 \in Nat /\ (j - 1) + 1 = j BY <1>1, <4>2
        <5>3. Text(Texts(j)).part = 3 BY <5>1, <5>2, Byte
        <5> QED BY <5>3 DEF y
      <4> QED BY <4>1, <4>2
    <3>4. x = Shown(a, b, y + 1) BY <1>2, <1>4, <1>10
    <3>5. \A d \in 1 .. 1 : f[d] = Shown(a, b, y + d) BY <2>2, <3>4
    <3>6. /\ Len(r[L + 1]) = 1 /\ r[L + 1] = f
      BY <2>2, <2>3
    <3> DEFINE from == a + Off(r, (L + 1) - 1)
    <3>7. from = y BY <3>2
    <3> HIDE DEF from
    <3>8. from + 1 <= y + 1 /\ from + 1 = y + 1 BY <1>4, <3>7
    <3>9. \A d \in 1 .. Len(r[L + 1]) : r[L + 1][d] = Shown(a, b, from + d)
      BY <3>5, <3>6, <3>7, Zenon
    <3>10. Text(from + 1).line = Text(from + Len(r[L + 1])).line BY <3>6, Zenon
    <3>11. from = a \/ Text(from).part = 3 BY <3>3, <3>7, Zenon
    <3>12. Len(r[L + 1]) # 0 /\ from + Len(r[L + 1]) <= y + 1 BY <3>6, <3>8
    <3> QED BY <3>9, <3>10, <3>11, <3>12, Zenon DEF GoodPiece, from
  <2>7. \A e \in 1 .. Len(r) : GoodPiece(a, b, y + 1, r, e)
    <3>1. \A e \in 1 .. L + 1 : e = L + 1 \/ e \in 1 .. L BY <1>7
    <3> QED BY <2>3, <2>5, <2>6, <3>1
  <2>8. Len(r) # 0 BY <1>7, <2>3
  <2> QED BY <1>9, <1>10, <2>3, <2>4, <2>7, <2>8 DEF r
<1>11. CASE At(k + i) # Newline /\ i # 1 /\ At(j) # Newline
  <2>1. x \in Fragments /\ r = [p EXCEPT ![Len(p)] = Append(@, x)] /\ Len(p) # 0
    BY <1>2, <1>5, <1>6, <1>11
  <2> DEFINE s == [p EXCEPT ![Len(p)] = Append(@, x)]
  <2>2. /\ s \in Seq(Seq(Fragments)) /\ Len(s) = Len(p)
        /\ \A e \in 1 .. Len(p) : s[e] = IF e = Len(p) THEN Append(p[e], x) ELSE p[e]
        /\ FlattenSeq(s) = Append(FlattenSeq(p), x)
    BY <1>5, <2>1, FlattenExtend, Zenon
  <2> HIDE DEF s
  <2>3. /\ r \in Seq(Seq(Fragments)) /\ Len(r) = L /\ L # 0
        /\ \A e \in 1 .. L : r[e] = IF e = L THEN Append(p[e], x) ELSE p[e]
        /\ FlattenSeq(r) = Append(FlattenSeq(p), x)
    BY <2>1, <2>2 DEF s
  <2> HIDE DEF L
  <2>4. L \in 1 .. L /\ L - 1 \in Nat /\ L - 1 <= L BY <1>7, <2>3
  <2>5. ASSUME NEW e \in 1 .. L, e # L PROVE GoodPiece(a, b, y + 1, r, e)
    <3>1. \A d \in 1 .. e : d \in 1 .. L /\ d # L BY <1>7, <2>5
    <3>2. \A d \in 1 .. e : p[d] = r[d] BY <2>3, <3>1
    <3>3. e <= Len(r) /\ e \in 1 .. Len(p) BY <1>7, <2>3 DEF L
    <3>4. y + 1 \in Nat /\ y <= y + 1 BY <1>4
    <3>5. GoodPiece(a, b, y, p, e) BY <1>5
    <3> QED BY <1>4, <1>5, <2>3, <3>2, <3>3, <3>4, <3>5, PieceStays
  <2>6. GoodPiece(a, b, y + 1, r, L)
    <3> DEFINE from == a + Off(p, L - 1)
               n == Len(p[L])
    <3>1. Off(r, L - 1) = Off(p, L - 1)
      <4> DEFINE W == Seq(Fragments)
      <4> HIDE DEF W
      <4>1. p \in Seq(W) /\ r \in Seq(W) BY <1>5, <2>3 DEF W
      <4>2. L - 1 <= Len(p) /\ L - 1 <= Len(r) BY <2>3, <2>4 DEF L
      <4>3. \A d \in 1 .. L - 1 : p[d] = r[d] BY <1>7, <2>3
      <4>4. SubSeq(p, 1, L - 1) = SubSeq(r, 1, L - 1)
        BY <2>4, <4>1, <4>2, <4>3, PrefixSame
      <4> QED BY <4>4 DEF Off
    <3>2. from \in Nat /\ n \in Nat /\ from + n = y /\ p[L] \in Seq(Fragments)
      <4>1. /\ Off(p, L - 1) \in Nat /\ n \in Nat /\ p[L] \in Seq(Fragments)
            /\ Off(p, L) = Off(p, L - 1) + n /\ Off(p, L) = y - a
        BY <1>7, <2>4 DEF L
      <4> HIDE DEF n
      <4> QED BY <1>4, <4>1
    <3>3. /\ n # 0 /\ (from = a \/ Text(from).part = 3)
          /\ Text(from + 1).line = Text(from + n).line
          /\ \A d \in 1 .. n : p[L][d] = Shown(a, b, from + d)
      BY <1>5, <2>4 DEF GoodPiece
    <3> HIDE DEF from, n
    <3>4. /\ Len(r[L]) = n + 1 /\ r[L][n + 1] = x
          /\ \A d \in 1 .. n : r[L][d] = p[L][d]
      <4>1. r[L] = Append(p[L], x) BY <2>3, <2>4
      <4> QED BY <2>1, <3>2, <4>1 DEF n
    <3>5. x = Shown(a, b, from + (n + 1))
      <4>1. from + (n + 1) = y + 1 BY <1>4, <3>2
      <4> QED BY <1>2, <1>4, <1>11, <4>1
    <3>6. \A d \in 1 .. n + 1 : r[L][d] = Shown(a, b, from + d)
      <4>1. \A d \in 1 .. n + 1 : d = n + 1 \/ d \in 1 .. n BY <3>2
      <4> QED BY <3>3, <3>4, <3>5, <4>1
    <3>7. Text(y).line = Text(y + 1).line
      <4>1. j - 1 \in Nat /\ (j - 1) + 1 = j BY <1>1, <1>11
      <4>2. At(j) = Text(Texts(j)) BY <1>11, <4>1, Byte
      <4> QED BY <1>4, <1>11, <4>2 DEF y
    <3>8. from + (n + 1) = y + 1 BY <1>4, <3>2
    <3>9. Text(from + 1).line = Text(from + (n + 1)).line
      BY <3>2, <3>3, <3>7, <3>8
    <3>10. n + 1 # 0 /\ from + (n + 1) <= y + 1 BY <1>4, <3>2, <3>8
    <3>11. a + Off(r, L - 1) = from BY <3>1 DEF from
    <3> QED BY <3>3, <3>4, <3>6, <3>9, <3>10, <3>11 DEF GoodPiece
  <2>7. \A e \in 1 .. Len(r) : GoodPiece(a, b, y + 1, r, e) BY <2>3, <2>5, <2>6
  <2> QED BY <1>9, <1>11, <2>3, <2>7 DEF r
<1> QED BY <1>8, <1>10, <1>11

LEMMA PiecesGood ==
    ASSUME NEW k \in Nat, NEW m \in Nat
    PROVE  GoodPieces(k, m, m, Pieces(Decoded(LogFrom(k, m))))
<1> DEFINE c == Decoded(LogFrom(k, m))
           F == CHOOSE f : Cuts(c, m, f)
<1>1. Len(c) = m BY DecodedIs
<1>2. c = Decoded(LogFrom(k, m)) OBVIOUS
<1> HIDE DEF c
<1>3. Pieces(c) = F[m] BY <1>1, Zenon DEF Pieces, Cuts
<1>4. Cuts(c, m, F) BY CutsExists
<1> HIDE DEF F
<1> DEFINE B == {i \in 0 .. m : ~GoodPieces(k, m, i, F[i])}
<1> SUFFICES ASSUME B # {} PROVE FALSE
  <2>1. m \in 0 .. m OBVIOUS
  <2> QED BY <1>3, <2>1 DEF c
<1>5. PICK i \in B : \A y \in B : i <= y
  <2>1. B \in SUBSET Nat OBVIOUS
  <2> HIDE DEF B
  <2> QED BY <2>1, Smallest
<1>6. i \in 0 .. m /\ ~GoodPieces(k, m, i, F[i]) OBVIOUS
<1>7. F[i] = IF i = 0 THEN <<>> ELSE Cut(c, i, F[i - 1]) BY <1>4, <1>6, CutsAt
<1>8. CASE i = 0
  <2> DEFINE e == <<>>
  <2>1. e \in Seq(Seq(Fragments)) /\ Len(e) = 0 OBVIOUS
  <2>2. F[i] = e BY <1>7, <1>8
  <2>3. Len(FlattenSeq(e)) = 0
    <3>1. FlattenSeq(e) = <<>> BY <2>1, FlattenIs
    <3> QED BY <3>1
  <2>4. Texts(k) \in Nat BY Byte
  <2>5. k + i = k /\ Texts(k) - Texts(k) = 0 BY <1>8, <2>4
  <2> HIDE DEF e
  <2>6. \A d \in 1 .. Len(e) : FALSE BY <2>1
  <2> QED BY <1>6, <1>8, <2>1, <2>2, <2>3, <2>5, <2>6 DEF GoodPieces
<1>9. CASE i # 0
  <2>1. i - 1 \in 0 .. m /\ i \in 1 .. m /\ ~(i <= i - 1) BY <1>6, <1>9
  <2>2. i - 1 \notin B
    <3> HIDE DEF B
    <3> QED BY <1>5, <2>1
  <2>3. GoodPieces(k, m, i - 1, F[i - 1]) BY <2>1, <2>2
  <2>4. GoodPieces(k, m, i, Cut(c, i, F[i - 1])) BY <1>2, <2>1, <2>3, CutGood
  <2> QED BY <1>6, <1>7, <1>9, <2>4
<1> QED BY <1>8, <1>9

-----------------------------------------------------------------------------
(* The stream. *)

LEMMA LogJoins ==
    ASSUME NEW k \in Nat, NEW n \in Nat, NEW m \in Nat
    PROVE  LogFrom(k, n) \o LogFrom(k + n, m) = LogFrom(k, n + m)
<1> DEFINE s == LogFrom(k, n)
           t == LogFrom(k + n, m)
           u == LogFrom(k, n + m)
<1>1. s \in Seq(Fragments) /\ Len(s) = n /\ \A i \in 1 .. n : s[i] = At(k + i)
  BY LogFromIs
<1>2. t \in Seq(Fragments) /\ Len(t) = m /\ \A i \in 1 .. m : t[i] = At(k + n + i)
  <2>1. k + n \in Nat OBVIOUS
  <2> QED BY <2>1, LogFromIs
<1>3. u \in Seq(Fragments) /\ Len(u) = n + m /\ \A i \in 1 .. n + m : u[i] = At(k + i)
  BY LogFromIs
<1> HIDE DEF s, t, u
<1>4. /\ s \o t \in Seq(Fragments) /\ Len(s \o t) = n + m
      /\ \A i \in 1 .. n + m : (s \o t)[i] = IF i <= n THEN s[i] ELSE t[i - n]
  BY <1>1, <1>2, ConcatProperties
<1>5. ASSUME NEW i \in 1 .. n + m PROVE (s \o t)[i] = u[i]
  <2>1. u[i] = At(k + i) /\ (s \o t)[i] = IF i <= n THEN s[i] ELSE t[i - n]
    BY <1>3, <1>4
  <2>2. i <= n => s[i] = At(k + i) BY <1>1
  <2>3. ~(i <= n) => t[i - n] = At(k + i)
    <3> SUFFICES ASSUME ~(i <= n) PROVE t[i - n] = At(k + i) OBVIOUS
    <3>1. i - n \in 1 .. m /\ k + n + (i - n) = k + i OBVIOUS
    <3>2. t[i - n] = At(k + n + (i - n)) BY <1>2, <3>1
    <3> QED BY <3>1, <3>2
  <2> QED BY <2>1, <2>2, <2>3, Zenon
<1> QED BY <1>3, <1>4, <1>5, SeqEqual DEF s, t, u

LEMMA LogSplits ==
    ASSUME NEW k \in Nat, NEW m \in Nat, NEW n \in 0 .. m
    PROVE  /\ SubSeq(LogFrom(k, m), 1, n) = LogFrom(k, n)
           /\ SubSeq(LogFrom(k, m), n + 1, m) = LogFrom(k + n, m - n)
<1> DEFINE c == LogFrom(k, m)
           s == LogFrom(k, n)
           t == LogFrom(k + n, m - n)
<1>1. /\ c \in Seq(Fragments) /\ Len(c) = m
      /\ \A i \in 1 .. m : c[i] = At(k + i) /\ c[i] \in Fragments
  <2>1. c \in Seq(Fragments) /\ Len(c) = m /\ \A i \in 1 .. m : c[i] = At(k + i)
    BY LogFromIs
  <2> HIDE DEF c
  <2> QED BY <2>1
<1>2. s \in Seq(Fragments) /\ Len(s) = n /\ \A i \in 1 .. n : s[i] = At(k + i)
  <2>1. n \in Nat OBVIOUS
  <2> QED BY <2>1, LogFromIs
<1>3. /\ t \in Seq(Fragments) /\ Len(t) = m - n
      /\ \A i \in 1 .. m - n : t[i] = At(k + n + i)
  <2>1. m - n \in Nat /\ k + n \in Nat OBVIOUS
  <2> QED BY <2>1, LogFromIs
<1> HIDE DEF c, s, t
<1>4. SubSeq(c, 1, n) = s
  <2> DEFINE x == SubSeq(c, 1, n)
  <2>1. x \in Seq(Fragments) /\ Len(x) = n /\ \A i \in 1 .. n : x[i] = c[i]
    <3>1. \A i \in 1 .. n : c[i] \in Fragments BY <1>1
    <3>2. /\ x \in Seq(Fragments) /\ Len(x) = IF 1 <= n THEN n - 1 + 1 ELSE 0
          /\ \A i \in 1 .. n - 1 + 1 : x[i] = c[1 + i - 1]
      BY <3>1, SubSeqProperties
    <3> HIDE DEF x
    <3>3. Len(x) = n BY <3>2
    <3>4. \A i \in 1 .. n : x[i] = c[i]
      <4> TAKE i \in 1 .. n
      <4>1. i \in 1 .. n - 1 + 1 /\ 1 + i - 1 = i OBVIOUS
      <4> QED BY <3>2, <4>1
    <3> QED BY <3>2, <3>3, <3>4
  <2> HIDE DEF x
  <2>2. \A i \in 1 .. n : x[i] = s[i] BY <1>1, <1>2, <2>1
  <2>3. x = s BY <1>2, <2>1, <2>2, SeqEqual
  <2> QED BY <2>3 DEF x
<1>5. SubSeq(c, n + 1, m) = t
  <2> DEFINE x == SubSeq(c, n + 1, m)
  <2>1. /\ x \in Seq(Fragments) /\ Len(x) = m - n
        /\ \A i \in 1 .. m - n : x[i] = c[n + i]
    <3>1. \A i \in n + 1 .. m : c[i] \in Fragments BY <1>1
    <3>2. /\ x \in Seq(Fragments)
          /\ Len(x) = IF n + 1 <= m THEN m - (n + 1) + 1 ELSE 0
          /\ \A i \in 1 .. m - (n + 1) + 1 : x[i] = c[(n + 1) + i - 1]
      BY <3>1, SubSeqProperties
    <3> HIDE DEF x
    <3>3. Len(x) = m - n BY <3>2
    <3>4. \A i \in 1 .. m - n : x[i] = c[n + i]
      <4> TAKE i \in 1 .. m - n
      <4>1. i \in 1 .. m - (n + 1) + 1 /\ (n + 1) + i - 1 = n + i OBVIOUS
      <4> QED BY <3>2, <4>1
    <3> QED BY <3>2, <3>3, <3>4
  <2> HIDE DEF x
  <2>2. ASSUME NEW i \in 1 .. m - n PROVE x[i] = t[i]
    <3>1. n + i \in 1 .. m /\ k + (n + i) = k + n + i OBVIOUS
    <3>2. c[n + i] = At(k + (n + i)) BY <1>1, <3>1
    <3> QED BY <1>3, <2>1, <3>1, <3>2
  <2>3. x = t BY <1>3, <2>1, <2>2, SeqEqual
  <2> QED BY <2>3 DEF x
<1> QED BY <1>4, <1>5 DEF c, s, t

LEMMA LineIs == ASSUME NEW n \in Nat PROVE Line(n + 1) = LogFrom(4 * n, 4)
<1> DEFINE l == Line(n + 1)
           t == LogFrom(4 * n, 4)
<1>1. 4 * n \in Nat OBVIOUS
<1>2. t \in Seq(Fragments) /\ Len(t) = 4 /\ \A i \in 1 .. 4 : t[i] = At(4 * n + i)
  BY <1>1, LogFromIs
<1>3. \A d \in 1 .. 3 : At(4 * n + d) = [line |-> n + 1, part |-> d]
  <2> TAKE d \in 1 .. 3
  <2>1. (4 * n + d) \div 4 = n /\ (4 * n + d) % 4 = d /\ d # 0 OBVIOUS
  <2> QED BY <2>1 DEF At
<1>4. At(4 * n + 4) = Newline
  <2>1. (4 * n + 4) % 4 = 0 OBVIOUS
  <2> QED BY <2>1 DEF At
<1>5. /\ l \in Seq(Fragments) /\ Len(l) = 4
      /\ \A d \in 1 .. 3 : l[d] = [line |-> n + 1, part |-> d]
      /\ l[4] = Newline
  BY DEF Line, Fragments, Newline
<1> HIDE DEF l, t
<1>6. \A i \in 1 .. 4 : l[i] = t[i]
  <2> TAKE i \in 1 .. 4
  <2>1. i \in 1 .. 3 \/ i = 4 OBVIOUS
  <2>2. t[i] = At(4 * n + i) BY <1>2
  <2> QED BY <1>3, <1>4, <1>5, <2>1, <2>2, Zenon
<1>7. l = t BY <1>2, <1>5, <1>6, SeqEqual
<1> QED BY <1>7 DEF l, t

\* How many of m bytes of the log are not newlines.
LEMMA CountTexts ==
    ASSUME NEW k \in Nat, NEW m \in Nat
    PROVE  Cardinality({i \in 1 .. m : At(k + i) # Newline}) = Texts(k + m) - Texts(k)
<1> DEFINE U(j) == {i \in 1 .. j : At(k + i) # Newline}
           B == {j \in Nat : ~(IsFiniteSet(U(j))
                               /\ Cardinality(U(j)) = Texts(k + j) - Texts(k))}
<1> SUFFICES ASSUME B # {} PROVE FALSE OBVIOUS
<1>1. PICK j \in B : \A y \in B : j <= y
  <2>1. B \in SUBSET Nat OBVIOUS
  <2> HIDE DEF B
  <2> QED BY <2>1, Smallest
<1>2. j \in Nat /\ ~(IsFiniteSet(U(j)) /\ Cardinality(U(j)) = Texts(k + j) - Texts(k))
  OBVIOUS
<1>3. CASE j = 0
  <2>1. U(j) = {} /\ k + j = k BY <1>3
  <2>2. Texts(k) - Texts(k) = 0 BY Byte
  <2> HIDE DEF U
  <2> QED BY <1>2, <2>1, <2>2, FS_EmptySet
<1>4. CASE j # 0
  <2>1. j - 1 \in Nat /\ ~(j <= j - 1) BY <1>2, <1>4
  <2>2. j - 1 \notin B
    <3> HIDE DEF B
    <3> QED BY <1>1, <2>1
  <2>3. IsFiniteSet(U(j - 1)) /\ Cardinality(U(j - 1)) = Texts(k + (j - 1)) - Texts(k)
    BY <2>1, <2>2
  <2> DEFINE a == k + (j - 1)
  <2>4. a \in Nat /\ a + 1 = k + j BY <1>2, <2>1
  <2> HIDE DEF a
  <2>5. /\ Texts(k) \in Nat /\ Texts(a) \in Nat
        /\ At(a + 1) = Newline => Texts(a + 1) = Texts(a)
        /\ At(a + 1) # Newline => Texts(a + 1) = Texts(a) + 1
    BY <2>4, Byte
  <2>6. CASE At(a + 1) = Newline
    <3>1. U(j) = U(j - 1) BY <1>2, <1>4, <2>4, <2>6
    <3> HIDE DEF U
    <3> QED BY <1>2, <2>3, <2>4, <2>5, <2>6, <3>1 DEF a
  <2>7. CASE At(a + 1) # Newline
    <3>1. U(j) = U(j - 1) \union {j} /\ j \notin U(j - 1) BY <1>2, <1>4, <2>4, <2>7
    <3> HIDE DEF U
    <3>2. IsFiniteSet(U(j)) /\ Cardinality(U(j)) = Cardinality(U(j - 1)) + 1
      <4> DEFINE S == U(j - 1)
      <4>1. IsFiniteSet(S) /\ U(j) = S \union {j} /\ j \notin S BY <2>3, <3>1
      <4> HIDE DEF S
      <4>2. IsFiniteSet(S \union {j}) /\ Cardinality(S \union {j}) = Cardinality(S) + 1
        BY <4>1, FS_AddElement
      <4>3. IsFiniteSet(U(j)) /\ Cardinality(U(j)) = Cardinality(S) + 1
        BY <4>1, <4>2
      <4> QED BY <4>3 DEF S
    <3> QED BY <1>2, <2>3, <2>4, <2>5, <2>7, <3>2 DEF a
  <2> QED BY <2>6, <2>7
<1> QED BY <1>3, <1>4

-----------------------------------------------------------------------------
(* What the events are. *)

\* Follows(event, n) for the set E of places where chunks ended.
FollowsIn(E, event, n) ==
    LET to == n + Len(event)
    IN  /\ Len(event) # 0
        /\ Text(n + 1).line = Text(to).line
        /\ Text(to).part = 3 \/ to \in E
        /\ \A j \in 1 .. Len(event) : event[j] = Shown(n, to, n + j)

LEMMA FollowsIs ==
    ASSUME NEW event \in Seq(Fragments), NEW n \in Nat, FollowsIn(ends, event, n)
    PROVE  Follows(event, n)
<1> DEFINE to == n + Len(event)
           cut == {i \in DOMAIN event : \/ i = 1 /\ Text(n + i).part = 3
                                        \/ i = Len(event) /\ Text(n + i).part = 2}
<1>1. DOMAIN event = 1 .. Len(event) /\ Len(event) \in Nat OBVIOUS
<1>2. event # <<>> BY DEF FollowsIn
<1>3. Text(n + 1).line = Text(to).line /\ (Text(to).part = 3 \/ to \in ends)
  BY DEF FollowsIn
<1>4. ASSUME NEW i \in DOMAIN event
      PROVE  event[i] = IF i \in cut THEN Replacement ELSE Text(n + i)
  <2>1. i \in 1 .. Len(event) BY <1>1
  <2>2. (n + i = to <=> i = Len(event)) /\ (n + i = n + 1 <=> i = 1) BY <1>1, <2>1
  <2>3. event[i] = Shown(n, to, n + i) BY <2>1 DEF FollowsIn
  <2> HIDE DEF to
  <2>4. Half(n, to, n + i) <=> i \in cut BY <2>2, Zenon DEF Half
  <2> HIDE DEF cut
  <2> QED BY <2>3, <2>4, Zenon DEF Shown
<1> QED BY <1>2, <1>3, <1>4, Zenon DEF Follows

\* The pieces of the m bytes after the k-th are what follows them.
LEMMA PieceFollows ==
    ASSUME NEW k \in Nat, NEW m \in Nat, NEW p, GoodPieces(k, m, m, p),
           NEW e \in 1 .. Len(p), NEW E, Texts(k + m) \in E
    PROVE  FollowsIn(E, p[e], Texts(k) + Off(p, e - 1))
<1> DEFINE a == Texts(k)
           b == Texts(k + m)
           from == a + Off(p, e - 1)
           n == Len(p[e])
           to == from + n
<1>1. a \in Nat /\ b \in Nat
  <2>1. k + m \in Nat OBVIOUS
  <2> QED BY <2>1, Byte
<1>2. /\ p \in Seq(Seq(Fragments)) /\ Len(FlattenSeq(p)) = b - a
      /\ \A d \in 1 .. Len(p) : GoodPiece(a, b, b, p, d)
  BY DEF GoodPieces
<1> HIDE DEF a, b
<1>3. /\ Off(p, e - 1) \in Nat /\ Off(p, e) = Off(p, e - 1) + n
      /\ Off(p, Len(p)) = b - a
  <2>1. e - 1 \in 0 .. Len(p) /\ e \in 1 .. Len(p) BY <1>2, LenProperties
  <2> QED BY <1>2, <2>1, Offsets
<1>4. n \in Nat
  <2>1. p[e] \in Seq(Fragments) BY <1>2, ElementOfSeq
  <2> QED BY <2>1, LenProperties
<1>5. GoodPiece(a, b, b, p, e) BY <1>2
<1>6. /\ n # 0 /\ (from = a \/ Text(from).part = 3) /\ to <= b
      /\ Text(from + 1).line = Text(to).line
      /\ \A d \in 1 .. n : p[e][d] = Shown(a, b, from + d)
  BY <1>5, Zenon DEF GoodPiece
<1>7. to = b \/ Text(to).part = 3
  <2> HIDE DEF n
  <2>1. to = a + Off(p, e) /\ to # a BY <1>1, <1>3, <1>4, <1>6
  <2>2. CASE e = Len(p)
    <3>1. to = b BY <1>1, <1>3, <2>1, <2>2
    <3> QED BY <3>1
  <2>3. CASE e # Len(p)
    <3>1. e + 1 \in 1 .. Len(p) /\ (e + 1) - 1 = e BY <1>2, <2>3, LenProperties
    <3>2. GoodPiece(a, b, b, p, e + 1) BY <1>2, <3>1
    <3> HIDE DEF to
    <3>3. a + Off(p, (e + 1) - 1) = to BY <2>1, <3>1
    <3>4. to = a \/ Text(to).part = 3 BY <3>2, <3>3, Zenon DEF GoodPiece
    <3> QED BY <2>1, <3>4
  <2> QED BY <2>2, <2>3
<1>8. from = a \/ Text(from + 1).part # 3
  <2> SUFFICES ASSUME from # a PROVE Text(from + 1).part # 3 OBVIOUS
  <2>1. from \in Nat \ {0} BY <1>1, <1>3
  <2> HIDE DEF from
  <2>2. Text(from).part = 3 => Text(from + 1).part = 1 BY <2>1, TextIs
  <2> QED BY <1>6, <2>2
<1>9. from \in Nat /\ a <= from /\ to \in Nat /\ to = from + n BY <1>1, <1>3, <1>4
<1> HIDE DEF from, to, n
<1>10. ASSUME NEW d \in 1 .. n PROVE Shown(a, b, from + d) = Shown(from, to, from + d)
  <2> DEFINE x == from + d
  <2>1. x <= to /\ from + 1 <= x /\ x \in Nat BY <1>4, <1>9
  <2> HIDE DEF x
  <2>2. x = b => x = to BY <1>1, <1>6, <1>9, <2>1
  <2>3. x = a + 1 => x = from + 1 BY <1>1, <1>9, <2>1
  <2>4. Text(x).part = 2 /\ x = to => x = b
    <3>1. 2 # 3 OBVIOUS
    <3> QED BY <1>7, <3>1, Zenon
  <2>5. Text(x).part = 3 /\ x = from + 1 => x = a + 1 BY <1>8, Zenon
  <2>6. Half(a, b, x) <=> Half(from, to, x) BY <2>2, <2>3, <2>4, <2>5, Zenon DEF Half
  <2> QED BY <2>6, Zenon DEF Shown, x
<1>11. to = b => to \in E BY DEF b
<1>12. \A d \in 1 .. n : p[e][d] = Shown(from, to, from + d) BY <1>6, <1>10, Zenon
<1>13. FollowsIn(E, p[e], from)
  <2>1. to = from + Len(p[e]) BY <1>9 DEF n
  <2> QED BY <1>6, <1>7, <1>11, <1>12, <2>1, Zenon DEF FollowsIn, n
<1> QED BY <1>13, Zenon DEF from, a

\* The child has written the first 4 * logged bytes of the log, of which the
\* first k were read, and each event follows the text of those before it.
LogInv ==
    /\ logged \in Nat
    /\ events \in Seq(Seq(Fragments))
    /\ \E k \in 0 .. 4 * logged :
         /\ pipe = LogFrom(k, 4 * logged - k)
         /\ Len(FlattenSeq(events)) = Texts(k)
    /\ \A i \in 1 .. Len(events) : FollowsIn(ends, events[i], Off(events, i - 1))

LEMMA LogsInv == ASSUME LogInv, Logs PROVE LogInv'
<1>1. /\ logged \in Nat /\ logged' = logged + 1 /\ pipe' = pipe \o Line(logged + 1)
      /\ events' = events /\ ends' = ends
  BY DEF LogInv, Logs
<1>2. PICK k \in 0 .. 4 * logged :
        pipe = LogFrom(k, 4 * logged - k) /\ Len(FlattenSeq(events)) = Texts(k)
  BY DEF LogInv
<1> DEFINE n == 4 * logged - k
<1>3. n \in Nat /\ k \in Nat /\ k + n = 4 * logged /\ n + 4 = 4 * (logged + 1) - k
      /\ k \in 0 .. 4 * (logged + 1) /\ logged + 1 \in Nat
  BY <1>1, <1>2
<1>4. Line(logged + 1) = LogFrom(k + n, 4) BY <1>1, <1>3, LineIs
<1> HIDE DEF n
<1>5. LogFrom(k, n) \o LogFrom(k + n, 4) = LogFrom(k, n + 4) BY <1>3, LogJoins
<1>6. pipe' = LogFrom(k, 4 * (logged + 1) - k) BY <1>1, <1>2, <1>3, <1>4, <1>5 DEF n
<1>7. logged' \in Nat /\ events' \in Seq(Seq(Fragments)) BY <1>1, <1>3 DEF LogInv
<1>8. k \in 0 .. 4 * logged' /\ pipe' = LogFrom(k, 4 * logged' - k)
      /\ Len(FlattenSeq(events')) = Texts(k)
  BY <1>1, <1>2, <1>3, <1>6
<1>9. \A i \in 1 .. Len(events') : FollowsIn(ends', events'[i], Off(events', i - 1))
  BY <1>1, Zenon DEF LogInv
<1> QED BY <1>7, <1>8, <1>9, Zenon DEF LogInv, FollowsIn, Off

LEMMA ChunkInv == ASSUME LogInv, NEW n \in 1 .. Len(pipe), Chunk(n) PROVE LogInv'
<1>1. PICK k \in 0 .. 4 * logged :
        pipe = LogFrom(k, 4 * logged - k) /\ Len(FlattenSeq(events)) = Texts(k)
  BY DEF LogInv
<1> DEFINE m == 4 * logged - k
           p == Pieces(Decoded(LogFrom(k, n)))
           W == Seq(Fragments)
<1> HIDE DEF W
<1>2. logged \in Nat /\ k \in Nat /\ m \in Nat /\ events \in Seq(Seq(Fragments))
  BY <1>1 DEF LogInv
<1>3. Len(pipe) = m
  <2> HIDE DEF m
  <2> QED BY <1>1, <1>2, LogFromIs DEF m
<1>4. n \in 0 .. m /\ n \in Nat /\ k + n \in 0 .. 4 * logged /\ k + n \in Nat
      /\ m - n = 4 * logged - (k + n)
  BY <1>1, <1>2, <1>3
<1>5. GoodPieces(k, n, n, p) BY <1>2, <1>4, PiecesGood
<1>6. /\ events' = events \o p /\ pipe' = LogFrom(k + n, m - n) /\ logged' = logged
      /\ ends' = ends \union {Len(FlattenSeq(events'))}
  <2> HIDE DEF m
  <2>1. /\ SubSeq(LogFrom(k, m), 1, n) = LogFrom(k, n)
        /\ SubSeq(LogFrom(k, m), n + 1, m) = LogFrom(k + n, m - n)
    BY <1>2, <1>4, LogSplits
  <2>2. pipe = LogFrom(k, m) BY <1>1 DEF m
  <2> QED BY <1>3, <2>1, <2>2 DEF Chunk
<1> HIDE DEF m, p
<1>7. /\ p \in Seq(Seq(Fragments)) /\ Len(FlattenSeq(p)) = Texts(k + n) - Texts(k)
      /\ Texts(k) \in Nat /\ Texts(k + n) \in Nat
  BY <1>2, <1>4, <1>5, Byte DEF GoodPieces
<1> DEFINE u == events \o p
           L == Len(events)
<1>8. /\ u \in Seq(Seq(Fragments)) /\ Len(u) = L + Len(p)
      /\ L \in Nat /\ Len(p) \in Nat
      /\ \A i \in 1 .. L : u[i] = events[i]
      /\ \A e \in 1 .. Len(p) : u[L + e] = p[e]
  <2>1. events \in Seq(W) /\ p \in Seq(W) BY <1>2, <1>7 DEF W
  <2>2. /\ u \in Seq(W) /\ Len(u) = L + Len(p) /\ L \in Nat /\ Len(p) \in Nat
        /\ \A i \in 1 .. L + Len(p) : u[i] = IF i <= L THEN events[i] ELSE p[i - L]
    BY <2>1, ConcatProperties, LenProperties
  <2> HIDE DEF u, L
  <2>3. ASSUME NEW i \in 1 .. L PROVE u[i] = events[i]
    <3>1. i \in 1 .. L + Len(p) /\ i <= L BY <2>2
    <3> QED BY <2>2, <3>1
  <2>4. ASSUME NEW e \in 1 .. Len(p) PROVE u[L + e] = p[e]
    <3>1. L + e \in 1 .. L + Len(p) /\ ~(L + e <= L) /\ (L + e) - L = e BY <2>2
    <3> QED BY <2>2, <3>1
  <2> QED BY <2>2, <2>3, <2>4 DEF W
<1>9. Len(FlattenSeq(u)) = Texts(k + n)
  <2>1. FlattenSeq(u) = FlattenSeq(events) \o FlattenSeq(p) BY <1>2, <1>7, FlattenConcat
  <2>2. FlattenSeq(events) \in Seq(Fragments) /\ FlattenSeq(p) \in Seq(Fragments)
    BY <1>2, <1>7, FlattenIs
  <2>3. Len(FlattenSeq(u)) = Len(FlattenSeq(events)) + Len(FlattenSeq(p))
    BY <2>1, <2>2, ConcatProperties
  <2> QED BY <1>1, <1>7, <2>3
<1> DEFINE E == ends \union {Texts(k + n)}
<1>10. ends' = E BY <1>6, <1>9
<1>11. ASSUME NEW i \in 1 .. L PROVE FollowsIn(E, u[i], Off(u, i - 1))
  <2>1. FollowsIn(ends, events[i], Off(events, i - 1)) BY DEF LogInv
  <2>2. FollowsIn(E, events[i], Off(events, i - 1))
    <3>1. ends \subseteq E OBVIOUS
    <3> HIDE DEF E
    <3> QED BY <2>1, <3>1, Zenon DEF FollowsIn
  <2>3. SubSeq(events, 1, i - 1) = SubSeq(u, 1, i - 1)
    <3>1. events \in Seq(W) /\ u \in Seq(W) BY <1>2, <1>8 DEF W
    <3> HIDE DEF u
    <3>2. i - 1 \in Nat /\ i - 1 <= Len(events) /\ i - 1 <= Len(u) BY <1>8
    <3>3. \A d \in 1 .. i - 1 : events[d] = u[d] BY <1>8
    <3> QED BY <3>1, <3>2, <3>3, PrefixSame
  <2>4. u[i] = events[i] BY <1>8
  <2> HIDE DEF u, E
  <2> QED BY <2>2, <2>3, <2>4, Zenon DEF Off
<1>12. ASSUME NEW e \in 1 .. Len(p) PROVE FollowsIn(E, u[L + e], Off(u, (L + e) - 1))
  <2>1. FollowsIn(E, p[e], Texts(k) + Off(p, e - 1)) BY <1>2, <1>4, <1>5, PieceFollows
  <2>2. e - 1 \in 0 .. Len(p) /\ (L + e) - 1 = L + (e - 1) BY <1>8
  <2>3. Off(u, L + (e - 1)) = Len(FlattenSeq(events)) + Off(p, e - 1)
    BY <1>2, <1>7, <2>2, OffConcat
  <2>4. u[L + e] = p[e] BY <1>8
  <2> HIDE DEF u, E, L
  <2>5. Off(u, (L + e) - 1) = Texts(k) + Off(p, e - 1) BY <1>1, <2>2, <2>3
  <2> QED BY <2>1, <2>4, <2>5, Zenon
<1> HIDE DEF u, E, L
<1>13. \A i \in 1 .. Len(u) : FollowsIn(E, u[i], Off(u, i - 1))
  <2> TAKE i \in 1 .. Len(u)
  <2>1. CASE i \in 1 .. L BY <1>11, <2>1
  <2>2. CASE i \notin 1 .. L
    <3>1. i - L \in 1 .. Len(p) /\ L + (i - L) = i BY <1>8, <2>2
    <3> QED BY <1>12, <3>1
  <2> QED BY <2>1, <2>2
<1>14. events' = u BY <1>6 DEF u
<1>15. \A i \in 1 .. Len(events') : FollowsIn(ends', events'[i], Off(events', i - 1))
  BY <1>10, <1>13, <1>14, Zenon
<1>16. logged' \in Nat /\ events' \in Seq(Seq(Fragments)) BY <1>2, <1>6, <1>8, <1>14
<1>17. /\ k + n \in 0 .. 4 * logged' /\ pipe' = LogFrom(k + n, 4 * logged' - (k + n))
       /\ Len(FlattenSeq(events')) = Texts(k + n)
  BY <1>4, <1>6, <1>9, <1>14
<1> QED BY <1>15, <1>16, <1>17, Zenon DEF LogInv, FollowsIn, Off

LEMMA LogSame == ASSUME LogInv, UNCHANGED <<logged, pipe, events, ends>> PROVE LogInv'
<1>1. logged' = logged /\ pipe' = pipe /\ events' = events /\ ends' = ends OBVIOUS
<1> QED BY <1>1, Zenon DEF LogInv, FollowsIn, Off

LEMMA LogStep == ASSUME LogInv, LogNext PROVE LogInv'
<1>1. CASE Logs BY <1>1, LogsInv
<1>2. CASE \E n \in 1 .. Len(pipe) : Chunk(n) BY <1>2, ChunkInv
<1>3. CASE Exits \/ ChildCloses \/ BrowserLeaves
  BY <1>3, LogSame DEF Exits, ChildCloses, BrowserLeaves
<1> QED BY <1>1, <1>2, <1>3 DEF LogNext

LEMMA LogInit0 == LogInit => LogInv
<1> SUFFICES ASSUME LogInit PROVE LogInv OBVIOUS
<1> DEFINE e == <<>>
<1>1. logged = 0 /\ pipe = e /\ events = e BY DEF LogInit
<1>2. e \in Seq(Seq(Fragments)) /\ Len(e) = 0 OBVIOUS
<1>3. FlattenSeq(e) = e BY <1>2, FlattenIs
<1>4. Texts(0) = 0
  <2>1. 0 \div 4 = 0 OBVIOUS
  <2> QED BY <2>1 DEF Texts
<1>5. LogFrom(0, 0) = e BY DEF LogFrom
<1> HIDE DEF e
<1>6. 0 \in 0 .. 4 * 0 /\ 4 * 0 - 0 = 0 OBVIOUS
<1>7. \A i \in 1 .. Len(events) : FALSE BY <1>1, <1>2
<1> QED BY <1>1, <1>2, <1>3, <1>4, <1>5, <1>6, <1>7 DEF LogInv

LEMMA LogInvGives == LogInv => LogInOrder
<1> SUFFICES ASSUME LogInv PROVE LogInOrder OBVIOUS
<1>1. PICK k \in 0 .. 4 * logged :
        pipe = LogFrom(k, 4 * logged - k) /\ Len(FlattenSeq(events)) = Texts(k)
  BY DEF LogInv
<1> DEFINE m == 4 * logged - k
           unread == {i \in DOMAIN pipe : pipe[i] # Newline}
<1>2. logged \in Nat /\ k \in Nat /\ m \in Nat /\ k + m = 4 * logged BY <1>1 DEF LogInv
<1>3. Texts(k) \in Nat BY <1>2, Byte
<1>4. Cardinality(unread) = Texts(k + m) - Texts(k)
  <2> HIDE DEF m
  <2>1. /\ LogFrom(k, m) \in Seq(Fragments) /\ Len(LogFrom(k, m)) = m
        /\ \A i \in 1 .. m : LogFrom(k, m)[i] = At(k + i)
    BY <1>2, LogFromIs
  <2>2. pipe = LogFrom(k, m) BY <1>1 DEF m
  <2>3. unread = {i \in 1 .. m : At(k + i) # Newline} BY <2>1, <2>2
  <2> HIDE DEF unread
  <2> QED BY <1>2, <2>3, CountTexts
<1>5. Texts(k + m) = 3 * logged
  <2>1. (4 * logged) \div 4 = logged BY <1>2
  <2> QED BY <1>2, <2>1 DEF Texts
<1> HIDE DEF unread, m
<1>6. Len(FlattenSeq(events)) + Cardinality(unread) = 3 * logged
  BY <1>1, <1>2, <1>3, <1>4, <1>5
<1>7. ASSUME NEW i \in DOMAIN events
      PROVE  Follows(events[i], Len(FlattenSeq(SubSeq(events, 1, i - 1))))
  <2>1. events \in Seq(Seq(Fragments)) BY DEF LogInv
  <2>2. i \in 1 .. Len(events) /\ i - 1 \in 0 .. Len(events) BY <2>1
  <2>3. events[i] \in Seq(Fragments) BY <2>1, <2>2, ElementOfSeq
  <2>4. Off(events, i - 1) \in Nat BY <2>1, <2>2, Offsets
  <2>5. FollowsIn(ends, events[i], Off(events, i - 1)) BY <2>2 DEF LogInv
  <2>6. Follows(events[i], Off(events, i - 1)) BY <2>3, <2>4, <2>5, FollowsIs
  <2> QED BY <2>6, Zenon DEF Off
<1> QED BY <1>6, <1>7, Zenon DEF LogInOrder, unread

\* However node cuts the output of the logcat child into "data" events, inside a
\* line or inside a character, the events put one after the other are the text of
\* the log up to what was not read; a line is two events only where a chunk ended
\* in it, and no character is replaced but one in which a chunk ended.
THEOREM LogIsInOrder == Spec => []LogInOrder
<1>1. Init => LogInv BY LogInit0 DEF Init
<1>2. LogInv /\ [Next]_vars => LogInv'
  <2> SUFFICES ASSUME LogInv, [Next]_vars PROVE LogInv' OBVIOUS
  <2>1. CASE UNCHANGED logVars BY <2>1, LogSame DEF logVars
  <2>2. CASE LogNext BY <2>2, LogStep
  <2> QED BY <2>1, <2>2 DEF Next, vars
<1>3. LogInv => LogInOrder BY LogInvGives
<1> QED BY <1>1, <1>2, <1>3, PTL DEF Spec
=============================================================================

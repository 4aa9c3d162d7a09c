------------------------------ MODULE ScopeApply ------------------------------
(***************************************************************************)
(* Applying a scope: the device is rebooted by a command nobody waits for, *)
(* and a job polls sys.boot_completed until it reads 1, becomes root and   *)
(* grants the helper its app-op again, which a reboot takes away.          *)
(*                                                                         *)
(* Source: src/backend/routes/scope.js; the device is external.            *)
(***************************************************************************)
EXTENDS AdbCommand, Naturals

CONSTANTS
    Applies,   \* the POST /apply requests
    MaxPolls,  \* how often a job polls (60 in the code)
    MaxBoots   \* bound on the reboots that others cause

ASSUME ApplyAssumption ==
    MaxPolls \in Nat /\ MaxBoots \in Nat /\ Commands = Applies \X {"reboot", "job"}

VARIABLES
    device,    \* "up" (booted), "booting" (adbd answers) or "down"
    adbd,      \* adbd is not just restarting as root
    boot,      \* how many times the device was rebooted
    allowed,   \* the app-op of the helper, in this boot
    job,       \* a |-> where the job is
    polls,     \* a |-> its i
    answer,    \* a |-> what its getprop printed
    askedIn    \* a |-> the boot in which it was asked

applyVars == <<device, adbd, boot, allowed, job, polls, answer, askedIn>>

ApplyInit ==
    /\ AdbInit
    /\ device = "up" /\ adbd = TRUE /\ boot = 0
    /\ allowed \in BOOLEAN
    /\ job = [a \in Applies |-> "idle"]
    /\ polls = [a \in Applies |-> 0]
    /\ answer = [a \in Applies |-> ""]
    /\ askedIn = [a \in Applies |-> 0]

Reachable == device # "down" /\ adbd

-----------------------------------------------------------------------------
(* The device. *)

Reboots(a) ==
    /\ Reachable /\ Execute(<<a, "reboot">>)
    /\ device' = "down" /\ adbd' = TRUE
    /\ boot' = boot + 1
    /\ allowed' = FALSE
    /\ UNCHANGED <<job, polls, answer, askedIn>>

\* Another reboot: of another request, from the dashboard or of the container.
Restarts ==
    /\ boot < MaxBoots
    /\ device' = "down" /\ adbd' = TRUE
    /\ boot' = boot + 1
    /\ allowed' = FALSE
    /\ UNCHANGED <<job, polls, answer, askedIn, adbVars>>

Boots ==
    /\ device' = CASE device = "down" -> "booting" [] device = "booting" -> "up"
    /\ UNCHANGED <<adbd, boot, allowed, job, polls, answer, askedIn, adbVars>>

AdbdReturns ==
    /\ ~adbd
    /\ adbd' = TRUE
    /\ UNCHANGED <<device, boot, allowed, job, polls, answer, askedIn, adbVars>>

\* What the job's current command does there.
Serves(a) ==
    /\ Reachable /\ Execute(<<a, "job">>)
    /\ \/ /\ job[a] = "poll"
          /\ answer' = [answer EXCEPT ![a] = IF device = "up" THEN "1" ELSE ""]
          /\ askedIn' = [askedIn EXCEPT ![a] = boot]
          /\ UNCHANGED <<adbd, allowed>>
       \/ /\ job[a] = "root"
          /\ adbd' \in BOOLEAN
          /\ UNCHANGED <<answer, askedIn, allowed>>
       \/ /\ job[a] = "grant"
          /\ allowed' = TRUE
          /\ UNCHANGED <<answer, askedIn, adbd>>
    /\ UNCHANGED <<device, boot, job, polls>>

-----------------------------------------------------------------------------
(* The request and its job. *)

\* POST /apply: the answer goes out at once, the reboot is started.
Apply(a) ==
    /\ job[a] = "idle"
    /\ Spawn(<<a, "reboot">>)
    /\ job' = [job EXCEPT ![a] = "sleep"]
    /\ UNCHANGED <<device, adbd, boot, allowed, polls, answer, askedIn>>

\* Two seconds later, and again: the next round of the loop.
Poll(a) ==
    /\ job[a] = "sleep"
    /\ IF polls[a] < MaxPolls
       THEN /\ job' = [job EXCEPT ![a] = "poll"]
            /\ Spawn(<<a, "job">>)
       ELSE /\ job' = [job EXCEPT ![a] = "over"]
            /\ UNCHANGED adbVars
    /\ UNCHANGED <<device, adbd, boot, allowed, polls, answer, askedIn>>

Settled(a) == child[<<a, "job">>] = "settled"

Polled(a) ==
    /\ job[a] = "poll" /\ Settled(a)
    /\ IF ok[<<a, "job">>] /\ answer[a] = "1"
       THEN /\ job' = [job EXCEPT ![a] = "root"]
            /\ Spawn(<<a, "job">>)
            /\ UNCHANGED polls
       ELSE /\ job' = [job EXCEPT ![a] = "sleep"]
            /\ polls' = [polls EXCEPT ![a] = @ + 1]
            /\ UNCHANGED adbVars
    /\ UNCHANGED <<device, adbd, boot, allowed, answer, askedIn>>

\* Whether it became root is not looked at.
Rooted(a) ==
    /\ job[a] = "root" /\ Settled(a)
    /\ job' = [job EXCEPT ![a] = "grant"]
    /\ Spawn(<<a, "job">>)
    /\ UNCHANGED <<device, adbd, boot, allowed, polls, answer, askedIn>>

Granted(a) ==
    /\ job[a] = "grant" /\ Settled(a)
    /\ job' = [job EXCEPT ![a] = "over"]
    /\ UNCHANGED <<device, adbd, boot, allowed, polls, answer, askedIn,
                   adbVars>>

JobStep(a) == Apply(a) \/ Poll(a) \/ Polled(a) \/ Rooted(a) \/ Granted(a)

ApplyNext ==
    \/ \E a \in Applies : JobStep(a) \/ Reboots(a) \/ Serves(a)
    \/ \E k \in Commands : AdbStep(k) /\ UNCHANGED applyVars
    \/ (device # "up" /\ Boots) \/ AdbdReturns \/ Restarts

-----------------------------------------------------------------------------
(* Properties. *)

\* A job whose last command went well has granted the app-op for good: as long
\* as the boot that answered "1" lasts the app-op is allowed, whatever timed out
\* or failed before, and however often the device was rebooted.  Only an answer
\* of a boot that has ended since (the one its own reboot ends, among them) is
\* worth nothing.
GrantOutlivesReboot ==
    \A a \in Applies :
        /\ job[a] = "over" /\ polls[a] < MaxPolls /\ ok[<<a, "job">>]
        /\ askedIn[a] = boot
        => allowed
=============================================================================

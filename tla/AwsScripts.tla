----------------------------- MODULE AwsScripts -----------------------------
(***************************************************************************)
(* scripts/aws: launch_spot.py, terminate_instance.py, detach_volume.py    *)
(* and update_asg.py, run from any number of shells against one account.   *)
(*                                                                         *)
(* A script is a sequence of AWS calls.  A call may fail, and it may fail  *)
(* after it had its effect (the answer is lost); either way the script     *)
(* ends with exit code 1 and may be run again.  Between two calls AWS goes *)
(* on, and so do the scripts of the other shells.                          *)
(***************************************************************************)
EXTENDS Integers, Sequences, FiniteSets

CONSTANTS
    Shells,    \* each runs one script at a time
    Commands,  \* the command lines they choose from
    Ids,       \* instance ids
    First,     \* the instance that runs in the beginning
    Volumes,   \* the EBS volumes, attached to First in the beginning
    Zones,     \* availability zones; a template and AWS choose one of them
    Processes, \* processes of the Auto Scaling group
    Unset,     \* an option that is not given
    MaxRuns    \* bound on the number of scripts that are run

ASSUME IdsAssumption == First \in Ids /\ Zones # {}

VARIABLES
    job,      \* the script of each shell
    runs,     \* the number of scripts that were run
    inst,     \* instances
    vol,      \* volumes
    snapshots,\* volumes with a snapshot
    asg       \* the Auto Scaling group

vars == <<job, runs, inst, vol, snapshots, asg>>

-----------------------------------------------------------------------------
\* What the argument parsers let through.
LaunchCommand(c) ==
    /\ c.script = "launch" /\ Len(c.types) \in Nat \ {0}
    /\ c.image \in {"template", "ami", Unset}
    /\ c.zone \in Zones \cup {Unset} /\ c.dryRun \in BOOLEAN

TerminateCommand(c) ==
    /\ c.script = "terminate" /\ c.id \in Ids
    /\ {c.preserve, c.wait, c.dryRun} \subseteq BOOLEAN

DetachCommand(c) ==
    /\ c.script = "detach" /\ c.volume \in Volumes
    /\ {c.snapshot, c.wait, c.dryRun} \subseteq BOOLEAN

UpdateCommand(c) ==
    /\ c.script = "update"
    /\ {c.desired, c.min, c.max} \subseteq Int \cup {Unset}
    /\ c.suspend \cup c.resume \subseteq Processes /\ c.dryRun \in BOOLEAN

ASSUME CommandsAssumption ==
    \A c \in Commands : \/ LaunchCommand(c) \/ TerminateCommand(c)
                        \/ DetachCommand(c) \/ UpdateCommand(c)

\* The fields of a script: todo are the volumes it still has to flag, kept
\* those it has flagged, found those it found attached; next is the place in
\* the list of types, refused the places that had no capacity; id and type are
\* what it reports; seen is what it read of the group, disturbed says that
\* another shell has changed the group since then, and overwritten that one has
\* done so since its own update.
Idle == [at |-> "idle", cmd |-> [script |-> "none"], result |-> "none",
         number |-> 0, todo |-> {}, kept |-> {}, found |-> {}, next |-> 1,
         refused |-> {}, id |-> First, seen |-> <<>>,
         disturbed |-> FALSE, overwritten |-> FALSE]

Init ==
    /\ job = [j \in Shells |-> Idle] /\ runs = 0
    /\ inst = [i \in Ids |->
                 [state |-> IF i = First THEN "running" ELSE "none",
                  zone |-> Unset, run |-> 0]]
    /\ vol = [v \in Volumes |->
                [state |-> "in-use", at |-> First, delete |-> TRUE]]
    /\ snapshots = {}
    /\ asg = [desired |-> 1, min |-> 0, max |-> 2, suspended |-> {}]

-----------------------------------------------------------------------------
\* The steps of a script

\* launch_spot describes nothing; with neither template nor image it raises.
FirstPlace(c) ==
    IF c.script # "launch" THEN "describe"
    ELSE IF c.image = Unset THEN "end" ELSE "run"

\* A shell runs a script, for the first time or again.
Start(j) ==
    /\ job[j].at \in {"idle", "end"} /\ runs < MaxRuns
    /\ runs' = runs + 1
    /\ \E c \in Commands :
         job' = [job EXCEPT ![j] =
                   [Idle EXCEPT !.at = FirstPlace(c), !.cmd = c,
                                !.number = runs + 1,
                                !.result = IF FirstPlace(c) = "end"
                                             THEN "failed" ELSE "none"]]
    /\ UNCHANGED <<inst, vol, snapshots, asg>>

In(j, script, place) == job[j].cmd.script = script /\ job[j].at = place

Goto(j, new) == job' = [job EXCEPT ![j] = new]

End(j, result) == [job[j] EXCEPT !.at = "end", !.result = result]

\* The exception handlers: exit code 1.
Failed(j) == End(j, "failed")

\* The call had its effect; its answer arrives, or is lost.
Answered(j, new) == Goto(j, new) \/ Goto(j, Failed(j))

\* A call fails without effect, the one to assume the role included.  Only
\* the waiter of terminate_instance has its failures swallowed.
CallFails(j) ==
    /\ job[j].at \notin {"idle", "end"} /\ ~In(j, "terminate", "wait")
    /\ Goto(j, Failed(j))
    /\ UNCHANGED <<runs, inst, vol, snapshots, asg>>

-----------------------------------------------------------------------------
\* launch_spot_instance()

\* The placement is part of the specification that a template replaces.
ZoneOf(c, z) == c.image = "template" \/ c.zone = Unset \/ z = c.zone

\* Mutant: an answer that is lost is taken for a lack of capacity.
UnansweredMutant(j) ==
    IF job[j].next < Len(job[j].cmd.types) THEN [job[j] EXCEPT !.next = @ + 1]
    ELSE Failed(j)

\* Any error but the two about capacity and price ends the run.
Unanswered(j) == Failed(j)

RunInstances(j) ==
    /\ In(j, "launch", "run") /\ ~job[j].cmd.dryRun
    /\ \E i \in Ids, z \in Zones :
         /\ inst[i].state = "none"
         /\ ZoneOf(job[j].cmd, z)
         /\ inst' = [inst EXCEPT ![i] = [state |-> "running", zone |-> z,
                                         run |-> job[j].number]]
         /\ \/ Goto(j, [End(j, "ok") EXCEPT !.id = i])
            \/ Goto(j, Unanswered(j))
    /\ UNCHANGED <<runs, vol, snapshots, asg>>

\* Types are compared by name: one that is named again at the end ends the
\* search at its first place.
IsLast(j) ==
    job[j].cmd.types[job[j].next] = job[j].cmd.types[Len(job[j].cmd.types)]

\* InsufficientInstanceCapacity or SpotMaxPriceTooLow
NoCapacity(j) ==
    /\ In(j, "launch", "run") /\ ~job[j].cmd.dryRun
    /\ LET refused == job[j].refused \cup {job[j].next}
       IN Goto(j, IF IsLast(j)
                    THEN [End(j, "no capacity") EXCEPT !.refused = refused]
                    ELSE [job[j] EXCEPT !.refused = refused, !.next = @ + 1])
    /\ UNCHANGED <<runs, inst, vol, snapshots, asg>>

\* A dry run goes on after any error, and succeeds with the first type that
\* would do.
DryLaunch(j) ==
    /\ In(j, "launch", "run") /\ job[j].cmd.dryRun
    /\ \/ Goto(j, End(j, "dry"))
       \/ Goto(j, IF job[j].next = Len(job[j].cmd.types) THEN Failed(j)
                  ELSE [job[j] EXCEPT !.next = @ + 1])
    /\ UNCHANGED <<runs, inst, vol, snapshots, asg>>

-----------------------------------------------------------------------------
\* terminate_instance()

AttachedTo(i) == {v \in Volumes : vol[v].state = "in-use" /\ vol[v].at = i}

\* The volumes that would be deleted with the instance
ToFlag(i) == {v \in AttachedTo(i) : vol[v].delete}

\* The state of AWS is called shutting-down, not terminating: only a
\* terminated instance is recognised as such.
DescribeInstance(j) ==
    /\ In(j, "terminate", "describe")
    /\ LET c == job[j].cmd
           state == inst[c.id].state
       IN Goto(j, IF state = "none" THEN Failed(j)
                  ELSE IF state = "terminated" THEN End(j, "already")
                  ELSE [job[j] EXCEPT
                          !.at = "preserve",
                          !.todo = IF c.preserve /\ ~c.dryRun
                                     THEN ToFlag(c.id) ELSE {},
                          !.found = AttachedTo(c.id)])
    /\ UNCHANGED <<runs, inst, vol, snapshots, asg>>

\* Mutant: the error of one volume does not end the run.
FlagRefusedMutant(j, v) == [job[j] EXCEPT !.todo = @ \ {v}]

\* The instance is going down, or the volume has been detached.
FlagRefused(j, v) == Failed(j)

\* modify_instance_attribute for one volume.  The call names the device; a
\* volume that took the device of a detached one would be flagged in its place.
Flag(j) ==
    /\ In(j, "terminate", "preserve")
    /\ \E v \in job[j].todo :
         LET i == job[j].cmd.id
             done == [job[j] EXCEPT !.todo = @ \ {v}, !.kept = @ \cup {v}]
         IN IF inst[i].state = "running" /\ v \in AttachedTo(i)
              THEN /\ vol' = [vol EXCEPT ![v].delete = FALSE]
                   /\ Answered(j, done)
              ELSE Goto(j, FlagRefused(j, v)) /\ UNCHANGED vol
    /\ UNCHANGED <<runs, inst, snapshots, asg>>

\* terminate_instances
Terminate(j) ==
    /\ In(j, "terminate", "preserve") /\ job[j].todo = {}
    /\ LET c == job[j].cmd
           ended == End(j, IF c.dryRun THEN "dry" ELSE "ok")
       IN /\ inst' = IF c.dryRun \/ inst[c.id].state # "running" THEN inst
                     ELSE [inst EXCEPT ![c.id].state = "shutting-down"]
          /\ Answered(j, IF c.wait /\ ~c.dryRun
                           THEN [job[j] EXCEPT !.at = "wait"] ELSE ended)
    /\ UNCHANGED <<runs, vol, snapshots, asg>>

\* The waiter ends, with the instance or after ten minutes.
EndWait(j) ==
    /\ In(j, "terminate", "wait")
    /\ Goto(j, End(j, "ok"))
    /\ UNCHANGED <<runs, inst, vol, snapshots, asg>>

\* AWS: the instance is gone, and with it the volumes that are not kept.
Gone(i) ==
    /\ inst[i].state = "shutting-down"
    /\ inst' = [inst EXCEPT ![i].state = "terminated"]
    /\ vol' = [v \in Volumes |->
                 IF v \notin AttachedTo(i) THEN vol[v]
                 ELSE [vol[v] EXCEPT !.state = IF @ = "in-use" /\ vol[v].delete
                                                 THEN "deleted"
                                                 ELSE "available"]]
    /\ UNCHANGED <<job, runs, snapshots, asg>>

-----------------------------------------------------------------------------
\* detach_volume()

DescribeVolume(j) ==
    /\ In(j, "detach", "describe")
    /\ LET c == job[j].cmd
           v == vol[c.volume]
       IN Goto(j, IF v.state = "deleted" THEN Failed(j)
                  ELSE IF v.state = "available" THEN End(j, "ok")
                  ELSE [job[j] EXCEPT
                          !.id = v.at,
                          !.at = IF c.snapshot /\ ~c.dryRun THEN "snapshot"
                                 ELSE "detach"])
    /\ UNCHANGED <<runs, inst, vol, snapshots, asg>>

\* The snapshot is started, not waited for.
Snapshot(j) ==
    /\ In(j, "detach", "snapshot") /\ vol[job[j].cmd.volume].state # "deleted"
    /\ snapshots' = snapshots \cup {job[j].cmd.volume}
    /\ Answered(j, [job[j] EXCEPT !.at = "detach"])
    /\ UNCHANGED <<runs, inst, vol, asg>>

\* Only the volume is named: it leaves the instance it is attached to now.  The
\* time AWS takes over it is left out.
Detach(j) ==
    /\ In(j, "detach", "detach") /\ vol[job[j].cmd.volume].state = "in-use"
    /\ LET c == job[j].cmd
       IN IF c.dryRun THEN Goto(j, End(j, "dry")) /\ UNCHANGED vol
          ELSE /\ vol' = [vol EXCEPT ![c.volume].state = "available"]
               /\ Answered(j, IF c.wait THEN [job[j] EXCEPT !.at = "wait"]
                              ELSE End(j, "ok"))
    /\ UNCHANGED <<runs, inst, snapshots, asg>>

\* The waiter finds the volume available; CallFails is the waiter giving up.
Available(j) ==
    /\ In(j, "detach", "wait") /\ vol[job[j].cmd.volume].state = "available"
    /\ Goto(j, End(j, "ok"))
    /\ UNCHANGED <<runs, inst, vol, snapshots, asg>>

\* Another client attaches a volume; it is then kept by default, and nobody
\* changes that.
Attach(v, i) ==
    /\ vol[v].state = "available" /\ inst[i].state = "running"
    /\ vol' = [vol EXCEPT ![v] = [state |-> "in-use", at |-> i, delete |-> FALSE]]
    /\ UNCHANGED <<job, runs, inst, snapshots, asg>>

-----------------------------------------------------------------------------
\* update_asg()

DescribeGroup(j) ==
    /\ In(j, "update", "describe")
    /\ Goto(j, IF job[j].cmd.dryRun THEN End(j, "dry")
               ELSE [job[j] EXCEPT !.at = "update", !.seen = asg, !.disturbed = FALSE])
    /\ UNCHANGED <<runs, inst, vol, snapshots, asg>>

Given(x, default) == IF x = Unset THEN default ELSE x

Clamp(x, low, high) == IF x < low THEN low ELSE IF x > high THEN high ELSE x

\* What AWS makes of the options: a desired capacity that is not given
\* follows the new bounds.
Sizes(c) ==
    LET low == Given(c.min, asg.min)
        high == Given(c.max, asg.max)
    IN [desired |-> Given(c.desired, Clamp(asg.desired, low, high)),
        min |-> low, max |-> high, suspended |-> asg.suspended]

Valid(g) == 0 <= g.min /\ g.min <= g.desired /\ g.desired <= g.max

\* What the other scripts have read or written may be out of date.
Disturb(j, new) ==
    job' = [k \in Shells |->
              IF k = j THEN new
              ELSE [job[k] EXCEPT !.disturbed = TRUE, !.overwritten = TRUE]]

HasUpdates(c) == {c.desired, c.min, c.max} # {Unset}

Update(j) ==
    /\ In(j, "update", "update")
    /\ IF ~HasUpdates(job[j].cmd)
         THEN Goto(j, [job[j] EXCEPT !.at = "suspend"]) /\ UNCHANGED asg
         ELSE /\ Valid(Sizes(job[j].cmd))
              /\ asg' = Sizes(job[j].cmd)
              /\ \/ Disturb(j, [job[j] EXCEPT !.at = "suspend",
                                                !.overwritten = FALSE])
                 \/ Disturb(j, Failed(j))
    /\ UNCHANGED <<runs, inst, vol, snapshots>>

Suspend(j) ==
    /\ In(j, "update", "suspend")
    /\ asg' = [asg EXCEPT !.suspended = @ \cup job[j].cmd.suspend]
    /\ Answered(j, [job[j] EXCEPT !.at = "resume"])
    /\ UNCHANGED <<runs, inst, vol, snapshots>>

Resume(j) ==
    /\ In(j, "update", "resume")
    /\ asg' = [asg EXCEPT !.suspended = @ \ job[j].cmd.resume]
    /\ Answered(j, End(j, "ok"))
    /\ UNCHANGED <<runs, inst, vol, snapshots>>

\* Mutant: the operands are swapped.
OrMutant(x, default) == IF default = 0 THEN x ELSE default

\* Python's `or`: zero counts as not given.
Or(x, default) == IF x = Unset \/ x = 0 THEN default ELSE x

\* The field "updated" of the result
Reported(j) ==
    [desired |-> Or(job[j].cmd.desired, job[j].seen.desired),
     min |-> Or(job[j].cmd.min, job[j].seen.min),
     max |-> Or(job[j].cmd.max, job[j].seen.max)]

-----------------------------------------------------------------------------
Launch(j) == RunInstances(j) \/ NoCapacity(j) \/ DryLaunch(j)

Next ==
    \/ \E j \in Shells :
         \/ Start(j) \/ CallFails(j)
         \/ Launch(j)
         \/ DescribeInstance(j) \/ Flag(j) \/ Terminate(j) \/ EndWait(j)
         \/ DescribeVolume(j) \/ Snapshot(j) \/ Detach(j) \/ Available(j)
         \/ DescribeGroup(j) \/ Update(j) \/ Suspend(j) \/ Resume(j)
    \/ \E i \in Ids : Gone(i)
    \/ \E v \in Volumes, i \in Ids : Attach(v, i)

Spec == Init /\ [][Next]_vars

-----------------------------------------------------------------------------
\* When terminate_instance succeeds and was to preserve the volumes, none of
\* those it found is ever deleted, whatever the other shells did in between:
\* the flag of each was cleared before any termination could count.
PreservedSurvive ==
    \A j \in Shells :
      LET s == job[j]
      IN (s.cmd.script = "terminate" /\ s.result = "ok" /\ s.cmd.preserve)
           => \A v \in s.found : vol[v].state # "deleted"

\* The fallback of launch_spot never launches twice: an instance belongs to a
\* run of its own, and only a run that failed leaves one it does not report.
\* It lies in the zone asked for unless a template was used.
OneInstancePerRun ==
    \A i \in Ids : inst[i].run > 0 =>
      /\ \A k \in Ids \ {i} : inst[k].run # inst[i].run
      /\ \A j \in Shells : job[j].number = inst[i].run =>
           /\ job[j].result = "failed" \/ (job[j].result = "ok" /\ job[j].id = i)
           /\ job[j].cmd.zone \in {Unset, inst[i].zone}
                \/ job[j].cmd.image = "template"

\* launch_spot gives up for want of capacity only when every type it was given
\* has been refused, but for those behind a place where the last one is named
\* before: the search ends there.
GivesUpLast ==
    \A j \in Shells : job[j].result = "no capacity" =>
      LET types == job[j].cmd.types
      IN \A k \in 1 .. Len(types) :
           \/ k \in job[j].refused
           \/ \E m \in job[j].refused : m < k /\ types[m] = types[Len(types)]

\* A run of launch_spot launches one instance, and gives up only when every
\* type was refused.
LaunchIsSound == OneInstancePerRun /\ GivesUpLast

\* A size that a successful update_asg was asked for is the one the group has,
\* whatever other shells did before, unless one of them has set it since.  A
\* size that was not asked for is reported as it is, unless another shell has
\* changed it since it was read; but a desired capacity that had to follow the
\* new bounds, and a size set to 0, are reported as the old ones.
ReportIsTrue ==
    \A j \in Shells :
      LET s == job[j]
          c == s.cmd
      IN c.script = "update" /\ s.result = "ok" =>
           /\ ~s.overwritten =>
                /\ Given(c.desired, asg.desired) = asg.desired
                /\ Given(c.min, asg.min) = asg.min
                /\ Given(c.max, asg.max) = asg.max
           /\ ~s.disturbed =>
                /\ \/ Reported(j).desired = asg.desired
                   \/ c.desired = 0
                   \/ c.desired = Unset
                        /\ ~(asg.min <= s.seen.desired /\ s.seen.desired <= asg.max)
                /\ Reported(j).min = asg.min \/ c.min = 0
                /\ Reported(j).max = asg.max \/ c.max = 0
=============================================================================

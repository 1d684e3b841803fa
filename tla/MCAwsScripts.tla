---------------------------- MODULE MCAwsScripts ----------------------------
(***************************************************************************)
(* Command lines for AwsScripts, on both sides of every test: lists with   *)
(* and without a type named twice, a template, an image and none,          *)
(* terminations that preserve or wait or neither, sizes of zero and sizes  *)
(* that push the desired capacity.  MCWorkers gives them to two shells     *)
(* with three runs.                                                        *)
(***************************************************************************)
EXTENDS AwsScripts

MCLaunch(types, image, zone, dryRun) ==
    [script |-> "launch", types |-> types, image |-> image, zone |-> zone,
     dryRun |-> dryRun]

MCTerminate(id, preserve, wait, dryRun) ==
    [script |-> "terminate", id |-> id, preserve |-> preserve, wait |-> wait,
     dryRun |-> dryRun]

MCDetach(snapshot, wait, dryRun) ==
    [script |-> "detach", volume |-> "v1", snapshot |-> snapshot,
     wait |-> wait, dryRun |-> dryRun]

MCUpdate(desired, min, max, suspend, resume, dryRun) ==
    [script |-> "update", desired |-> desired, min |-> min, max |-> max,
     suspend |-> suspend, resume |-> resume, dryRun |-> dryRun]

MCCommands ==
    {MCLaunch(<<"a", "b">>, "ami", "z1", FALSE),
     MCLaunch(<<"a", "b", "a">>, "template", "z1", FALSE),
     MCLaunch(<<"a", "b">>, "ami", Unset, TRUE),
     MCLaunch(<<"a">>, Unset, "z1", FALSE),
     MCTerminate("i1", TRUE, TRUE, FALSE), MCTerminate("i1", FALSE, FALSE, FALSE),
     MCTerminate("i2", TRUE, FALSE, FALSE), MCTerminate("i1", TRUE, TRUE, TRUE),
     MCDetach(TRUE, TRUE, FALSE), MCDetach(FALSE, FALSE, FALSE),
     MCDetach(TRUE, TRUE, TRUE),
     MCUpdate(0, Unset, 2, {"Launch"}, {}, FALSE),
     MCUpdate(Unset, 2, 3, {}, {"Launch"}, FALSE),
     MCUpdate(Unset, Unset, Unset, {"Launch"}, {"Launch"}, FALSE),
     MCUpdate(3, Unset, Unset, {}, {}, FALSE),
     MCUpdate(1, 1, 2, {}, {}, TRUE)}
=============================================================================

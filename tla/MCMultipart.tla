---------------------------- MODULE MCMultipart ----------------------------
(***************************************************************************)
(* Small instances for TLC.  Of Multipart, one upload of two part numbers, *)
(* where part 1 is sent twice with the same bytes; of Dashboard, each of   *)
(* its parts.  They share no state: focus says which of them a behaviour   *)
(* is of.                                                                  *)
(***************************************************************************)
EXTENDS Multipart, Dashboard, TLC

CONSTANTS m1, r1, r2, r3, b1, b2, c1, c2, a1, o1, o2, v1, v2, l1

TwoNumbers == {1, 2}
AllOfOneUpload == [q \in Request |-> m1]
Numbers == [r \in Part |-> IF r = r2 THEN 2 ELSE 1]
Bodies == [r \in Part |-> IF r = r2 THEN b2 ELSE b1]
ObjectOf == [p \in Piece |-> IF p = v1 THEN o1 ELSE o2]

VARIABLE focus

Aside(f, Chosen, Still) == IF focus = f THEN Chosen ELSE Still

NoShell == ShellInit /\ routed = Nowhere
NoDialogs == DialogsInit /\ role = "viewer" /\ present = {}
NoPolls == PollInit /\ polling = "backup" /\ Newest(works) = 0

MCInit ==
    /\ focus \in {"upload", "shell", "dialogs", "polls", "run"}
    /\ Init /\ RunInit
    /\ Aside("shell", ShellInit, NoShell)
    /\ Aside("dialogs", DialogsInit, NoDialogs)
    /\ Aside("polls", PollInit, NoPolls)

dashVars == <<shellVars, dialogVars, pollVars, runVars>>
allVars == <<focus, vars, dashVars>>

Uploads(A) == focus = "upload" /\ A /\ UNCHANGED <<focus, dashVars>>
Polls(A) == focus = "polls" /\ A /\ UNCHANGED <<focus, vars, shellVars, dialogVars, runVars>>

MCNext ==
    \/ Uploads(Next) \/ Polls(PollNext)
    \/ /\ UNCHANGED <<focus, vars, pollVars>>
       /\ \/ focus = "shell" /\ ShellNext /\ UNCHANGED <<dialogVars, runVars>>
          \/ focus = "dialogs" /\ DialogsNext /\ UNCHANGED <<shellVars, runVars>>
          \/ focus = "run" /\ RunNext /\ UNCHANGED <<shellVars, dialogVars>>

\* Fairness of Multipart, and of the page's timer and of answers.
MCFairness ==
    /\ \A r \in Part : WF_allVars(Uploads(PartFails(r) \/ RenamePart(r) \/ RecordPart(r)))
    /\ \A c \in Completer : WF_allVars(Uploads(~(pc[c] = "idle") /\ CompleteStep(c)))
    /\ WF_allVars(Uploads(ListExpired))
    /\ \A u \in Upload : WF_allVars(Uploads(ExpireOne(u)))
    /\ WF_allVars(Polls(Tick)) /\ WF_allVars(Polls(SomeWorkAnswers))
    /\ \A w \in Work : WF_allVars(Polls(GatewayEnds(w)))

MCSpec == MCInit /\ [][MCNext]_allVars /\ MCFairness

=============================================================================

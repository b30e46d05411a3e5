------------------------------- MODULE MCIpc -------------------------------
(* Scenes of IPC for TLC: a and b on one CPU, far on another.                 *)
EXTENDS IpcRaces

CONSTANTS a, b, far

HomeOf == [t \in Thread |-> IF t = far THEN 1 ELSE 0]

Send(to, items, snd) ==
    [to |-> to, from |-> None, items |-> items, snd |-> snd, rcv |-> "never"]
CallTo(to, items, snd, rcv) ==
    [to |-> to, from |-> to, items |-> items, snd |-> snd, rcv |-> rcv]
Wait(from, rcv) ==
    [to |-> None, from |-> from, items |-> FALSE, snd |-> "never", rcv |-> rcv]
ReplyAndWait == [Wait(Anyone, "never") EXCEPT !.to = Reply, !.snd = "zero"]

Script(ofA, ofB, ofFar, ev) ==
    [calls |-> [t \in Thread |-> CASE t = a -> ofA [] t = b -> ofB [] t = far -> ofFar],
     events |-> ev]

\* two clients of a server, which gives up waiting
Server == Script(<<Wait(Anyone, "never"), ReplyAndWait, ReplyAndWait>>,
                 <<CallTo(a, FALSE, "some", "never")>>,
                 <<CallTo(a, TRUE, "some", "some")>>, {<<"cancel", b>>})

\* threads that call one another, and wait for one of them
Ring == Script(<<CallTo(b, TRUE, "some", "zero"), Wait(far, "some")>>,
               <<CallTo(far, TRUE, "some", "some"), Wait(a, "zero")>>,
               <<CallTo(a, FALSE, "some", "some")>>, {<<"cancel", a>>})

\* the server dies
Killed == Script(<<CallTo(b, TRUE, "some", "never")>>,
                 <<Wait(a, "some"), ReplyAndWait>>,
                 <<Send(b, FALSE, "never"), Send(b, TRUE, "zero")>>, 
                 {<<"kill", b>>, <<"cancel", a>>})

\* a sender gives up while its receiver takes the message
Late == Script(<<CallTo(b, TRUE, "some", "never")>>,
               <<Wait(Anyone, "never")>>, <<>>, {})

\* a remote sender that will receive gives up while its message is taken
Lost == Script(<<Wait(far, "never")>>, <<>>,
               <<CallTo(a, TRUE, "some", "never")>>, {<<"cancel", far>>})

AllScenes == {Server, Ring, Killed, Lost}
OnlyLate == {Late}
OnlyLost == {Lost}
=============================================================================

----------------------------- MODULE MCSession ------------------------------
(* Small instances of module Session. *)
EXTENDS Session

Plain(type, seq, dup) ==
    [type |-> type, seq |-> seq, dup |-> dup, parsed |-> "Valid", flaw |-> "None",
     begin |-> Missing, end |-> Missing, gapfill |-> FALSE, new |-> Missing, id |-> 0]

Numbers == 1 .. 4

InboundMessages ==
    {Plain(t, n, FALSE) : t \in {"Logon", "Logout", "App", "Reject"}, n \in Numbers}
      \cup {Plain("App", n, TRUE) : n \in Numbers}
      \cup {[Plain("SequenceReset", n, FALSE) EXCEPT !.gapfill = TRUE, !.new = n + k] :
                n \in Numbers, k \in 0 .. 2}
      \cup {[Plain("SequenceReset", 2, FALSE) EXCEPT !.new = k] : k \in {1, 4}}
      \cup {[Plain("ResendRequest", n, FALSE) EXCEPT !.begin = 1, !.end = 0] : n \in Numbers}

\* Every header flaw and parser verdict, requests with a field missing, and
\* heartbeats that answer a TestRequest.
OddMessages ==
    {[Plain("Heartbeat", 2, FALSE) EXCEPT !.id = k] : k \in {0, 2}}
      \cup {[Plain("TestRequest", 2, FALSE) EXCEPT !.id = k] : k \in {0, 1}}
      \cup {[Plain("SequenceReset", 2, FALSE) EXCEPT !.gapfill = TRUE]}
      \cup {[Plain("ResendRequest", 2, FALSE) EXCEPT !.begin = p[1], !.end = p[2]] :
                p \in {<<Missing, 1>>, <<1, Missing>>, <<1, 1>>, <<5, 0>>}}
      \cup {[Plain("App", 2, TRUE) EXCEPT !.flaw = f] : f \in HeaderFlaw \cup OrigFlaw}
      \cup {[Plain("App", 2, FALSE) EXCEPT !.parsed = p] : p \in Parsed \ {"Valid"}}

AllMessages == InboundMessages \cup OddMessages

FewMessages ==
    {Plain("Logon", n, FALSE) : n \in 1 .. 2} \cup {Plain("App", n, FALSE) : n \in 1 .. 3}
      \cup {Plain("Logout", 2, FALSE)}

\* In sequence after the Logon, after a gap, and too low when one comes twice.
EventMessages ==
    {Plain("Logon", 1, FALSE), Plain("Logout", 2, FALSE)} \cup {Plain("App", n, FALSE) : n \in 2 .. 3}

\* Message 2 was lost, and is sent again.
GapMessages == {Plain("Logon", 1, FALSE), Plain("App", 3, FALSE), Plain("App", 2, TRUE)}
LogonOnly == {Plain("Logon", 1, FALSE)}

\* Without a ResendRequest get_slice is not called.
EventFaults == Fault \ {"get_slice"}
AllDecisions == InboundDecision
SendOrTerminate == {"Send", "TerminateSession"}
\* The end of a period asks for a shutdown with reconnect.
AllRequests ==
    {[request |-> "Shutdown", reconnect |-> FALSE], [request |-> "ResetOnNextLogon"],
     [request |-> "SetNextTarget", seq_num |-> 1]}
BadSecond == {2}
GracefulShutdown == {[request |-> "Shutdown", reconnect |-> TRUE]}

NoFaults == {"none"}
NoRequests == {}
NoDecisions == {}
NoPeriods == {}
AcceptOnly == {"Accept"}
=============================================================================

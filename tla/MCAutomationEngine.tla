-------------------------- MODULE MCAutomationEngine --------------------------
(* TLC instances of AutomationEngine. *)
EXTENDS AutomationEngine

Assign(u) == [kind |-> "assign", user |-> u, cont |-> FALSE]
Message == [kind |-> "message", user |-> NoUser, cont |-> TRUE]

MCAutos == {1, 2}

\* Two rules that hand the conversation back and forth: the cascade only ends
\* at the depth cap.
PingPongTrigger == <<"ASSIGNED", "ASSIGNED">>
PingPongActions == << <<Assign("u1")>>, <<Assign("u2")>> >>

\* A rule that greets and a rule that assigns, on the same trigger.
GreetTrigger == <<"MESSAGE", "MESSAGE">>
GreetActions == << <<Message>>, <<Assign("u1")>> >>
=============================================================================

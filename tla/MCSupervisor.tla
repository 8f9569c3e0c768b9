---------------------------- MODULE MCSupervisor ----------------------------
(* A small supervisor with two chats to tell.  Every kind of message occurs: *)
(* an action approved twice, a review that is rejected, questions, a message *)
(* without text, a stranger, and the details of a run that is not there.     *)
EXTENDS Supervisor

MCChats == <<"c1", "c2">>
MCConversations ==
    {<<"propose", "approve", "approve">>, <<"review", "reject">>,
     <<"sticker", "chat", "stranger">>, <<"status", "details of none">>}
=============================================================================

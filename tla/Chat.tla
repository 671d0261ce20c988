-------------------------------- MODULE Chat --------------------------------
(* The support window (client/src/components/SupportChat.jsx): a question, *)
(* its answer typed out bit by bit, and the conversation the browser keeps *)
(* for each user.                                                          *)
EXTENDS Session

(* Whatever is said is written to the user's store with it.                *)
Said(t, log) ==
  [t EXCEPT !.chat.log = log,
            !.kept = IF t.user = None THEN @ ELSE [@ EXCEPT ![t.user] = log]]

OpenChat ==
  /\ tab.view.page # None /\ ~tab.chat.open /\ tab.dialog = None
  /\ Spend("chats")
  /\ LET t == [tab EXCEPT !.chat.open = TRUE] IN
     tab' = IF t.chat.enabled = None THEN Send(t, "status", NoArg, TRUE) ELSE t
  /\ UNCHANGED server

CloseChat ==
  /\ tab.chat.open
  /\ Spend("chats")
  /\ tab' = [tab EXCEPT !.chat.open = FALSE]
  /\ UNCHANGED server

(* No question while an answer is awaited; but one being typed out does    *)
(* not hold the next question up.                                          *)
ask ==
  /\ tab.chat.open /\ tab.chat.enabled # FALSE /\ ~tab.chat.busy
  /\ Spend("chats")
  /\ tab' = Send([Said(tab, Append(tab.chat.log, "me")) EXCEPT !.chat.busy = TRUE, !.chat.error = FALSE],
                 "chat", NoArg, TRUE)
  /\ UNCHANGED server

(* Faulty variant: after an error the question stays.                      *)
ChatAnsweredUnreleased(t, a) ==
  IF a.status = "ok" THEN [t EXCEPT !.chat.busy = FALSE, !.chat.typing = TRUE]
  ELSE [t EXCEPT !.chat.error = TRUE]

(* An answer begun to be typed out drops the one being typed out.          *)
ChatAnswered(t, a) ==
  IF a.status = "ok" THEN [t EXCEPT !.chat.busy = FALSE, !.chat.typing = TRUE]
  ELSE [t EXCEPT !.chat.busy = FALSE, !.chat.error = TRUE]

ChatEnds(i, a) ==
  LET r   == tab.flight[i]
      got == Received(tab, i, a)
      t   == IF a.status = "unauth" THEN onUnauth(got) ELSE got
  IN  Becomes(IF ~r.heard THEN t
              ELSE IF r.what = "status" THEN [t EXCEPT !.chat.enabled = a.status = "ok" /\ a.data]
              ELSE ChatAnswered(t, a))

typeOut ==
  /\ tab.chat.typing
  /\ tab' = [Said(tab, Append(tab.chat.log, "bot")) EXCEPT !.chat.typing = FALSE]
  /\ UNCHANGED <<server, left>>

clearChat ==
  /\ tab.chat.open
  /\ Spend("chats")
  /\ tab' = [Said(tab, <<>>) EXCEPT !.chat.error = FALSE, !.chat.typing = FALSE]
  /\ UNCHANGED server

(* server/routes/support.js                                                *)
ServeChat(i) ==
  LET r == tab.flight[i] IN
  /\ r.at = "sent" /\ r.what \in {"status", "chat"}
  /\ IF ~Valid(r.token) THEN Answered(i, Answer("unauth"))
     ELSE \/ \E on \in BOOLEAN : Answered(i, [Answer("ok") EXCEPT !.data = on])
          \/ r.what = "chat" /\ Answered(i, Answer("refused"))
  /\ UNCHANGED <<server, left>>
=============================================================================

----------------------------- MODULE WssSession -----------------------------
(***************************************************************************)
(* The wss_jsonrpc and wss_subscribe probes: open a WebSocket, send one    *)
(* request and judge the first text frame that comes back.                 *)
(***************************************************************************)
EXTENDS Attempt

CONSTANT Subscribe        \* the probe is wss_subscribe

\* The frames of the remote: texts with a result that is a string or is not,
\* with an error, with neither, or that are no JSON; and control frames.
Texts == {"string_result", "result", "error", "neither", "no_json"}
Messages == Texts \cup {"control"}

Init == pc = "parsing" /\ TcpInit

ParseUrl ==
  /\ pc = "parsing"
  /\ pc' = "connecting"
  /\ UNCHANGED <<up, down, remote, result>>

InvalidUrl ==
  /\ pc = "parsing"
  /\ Return(FALSE, FALSE, "internal")
  /\ UNCHANGED <<up, down, remote>>

Connect ==
  /\ pc = "connecting"
  /\ Established
  /\ pc' = "sending"
  /\ UNCHANGED <<up, down, result>>

\* The category is put in front of the message and read back from it.
ConnectFails ==
  /\ pc = "connecting"
  /\ \E c \in {"network", "dns_error", "auth_required", "rate_limited"} :
       Return(FALSE, TRUE, c)
  /\ UNCHANGED <<up, down, remote>>

Send ==
  /\ pc = "sending"
  /\ Write("request")
  /\ pc' = "reading"
  /\ UNCHANGED <<down, remote, result>>

SendFails ==
  /\ pc = "sending"
  /\ CannotWrite
  /\ Return(FALSE, TRUE, "network")
  /\ UNCHANGED <<up, down, remote>>

Accepted == IF Subscribe THEN {"string_result"} ELSE {"string_result", "result"}

Rejection(text) ==
  CASE text = "no_json" -> "network"
    [] text # "no_json" /\ Subscribe -> "unconfirmed"
    [] text = "error" /\ ~Subscribe -> "rpc_error"
    [] OTHER -> "api_error"

Frame == IF pc = "reading" /\ down # <<>> THEN Head(down) ELSE "no_frame"

ReadText ==
  /\ Frame \in Texts
  /\ Return(Frame \in Accepted, TRUE,
            IF Frame \in Accepted THEN "ok" ELSE Rejection(Frame))
  /\ UNCHANGED <<up, down, remote>>

\* Mutant: frames that are not accepted are skipped.
SkipUnaccepted ==
  /\ Frame \in Messages \ Accepted
  /\ down' = Tail(down)
  /\ UNCHANGED <<pc, up, remote, result>>

\* A ping, pong, binary or close frame.
SkipControl ==
  /\ Frame = "control"
  /\ down' = Tail(down)
  /\ UNCHANGED <<pc, up, remote, result>>

\* The stream ends without a text, or breaks.
ReadEnd ==
  /\ Frame \in {"fin", "rst"}
  /\ Return(FALSE, TRUE, "network")
  /\ UNCHANGED <<up, down, remote>>

Timeout ==
  /\ \/ pc = "connecting"
     \/ pc = "reading" /\ down = <<>>
  /\ Return(FALSE, FALSE, "timeout")
  /\ UNCHANGED <<up, down, remote>>

Probe ==
  \/ ParseUrl \/ InvalidUrl
  \/ Connect \/ ConnectFails
  \/ Send \/ SendFails
  \/ ReadText \/ SkipControl \/ ReadEnd
  \/ Timeout

Next == Probe \/ TcpRemote(Messages)

\* A pass is one on the first text of the remote and so is every refusal by
\* its content, whatever control frames come before it and whatever texts
\* after it: a later good answer does not save the attempt.
FirstTextDecides ==
  LET FirstText(texts) ==
        \E i \in DOMAIN remote.said :
          remote.said[i] \in texts /\ \A j \in 1..(i - 1) : remote.said[j] \notin Texts
  IN  /\ result.ok => FirstText(Accepted)
      /\ result.meta \in {"rpc_error", "api_error", "unconfirmed"} =>
           FirstText(Texts \ Accepted)

\* The text has arrived, and the probe has only control frames to read before.
Waits(text) == \E i \in DOMAIN down : down[i] = text /\ \A j \in 1..(i - 1) : down[j] = "control"

\* And the other way round: a first text that has arrived is what the attempt
\* ends with, an accepted one in a pass.  It waits while further texts, a close
\* and an error come in behind it and while the time runs out; only a reset
\* that overtakes it, so that it is never read, leaves another verdict.
FirstTextStands ==
  \A text \in Texts :
    pc = "reading" /\ Waits(text) =>
      \/ pc' = "reading" /\ (Waits(text)' \/ down' = <<"rst">>)
      \/ /\ pc' = "done" /\ result'.ok = (text \in Accepted)
         /\ text \notin Accepted => result'.meta = Rejection(text)

=============================================================================

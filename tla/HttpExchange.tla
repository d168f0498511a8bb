---------------------------- MODULE HttpExchange ----------------------------
(***************************************************************************)
(* The probes that make one HTTP request: https_jsonrpc,                   *)
(* https_jsonrpc_write, beacon_https and http_control.  The timeout is the *)
(* client's and covers the request and the body.  A body that breaks off   *)
(* or comes too late is read as an empty one (text().unwrap_or_default()). *)
(***************************************************************************)
EXTENDS Attempt

CONSTANTS
  Probes,       \* which of the four it is
  Expects       \* http_control: an expect_body is configured

Statuses == {200, 400, 401, 403, 429, 503}

\* A body by what the verdicts look at: the fields of a JSON object, or
\* whether a text is the one expected.
Fields == {"result", "error", "data.version"}
Bodies == [json : {TRUE}, has : SUBSET Fields, expected : {FALSE}]
            \cup [json : {FALSE}, has : {{}}, expected : BOOLEAN]
EmptyBody == [json |-> FALSE, has |-> {}, expected |-> FALSE]

Init ==
  /\ pc = "building"
  /\ up = <<>>
  /\ down = <<>>
  /\ remote = [state |-> "waiting", status |-> 0, body |-> EmptyBody]
  /\ result = NoResult

\* reqwest's builder.
BuildClient ==
  /\ pc = "building"
  /\ pc' = "sending"
  /\ UNCHANGED <<up, down, remote, result>>

BuildFails ==
  /\ pc = "building"
  /\ Return(FALSE, FALSE, IF Probes = "http_control" THEN "none" ELSE "internal")
  /\ UNCHANGED <<up, down, remote>>

\* send() fails, at any moment when it is the timeout that ends it.  The
\* category is guessed from the text of the error.
SendFails ==
  /\ pc = "sending"
  /\ \E c \in IF Probes = "http_control" THEN {"none"}
              ELSE {"timeout", "network", "dns_error"} : Return(FALSE, TRUE, c)
  /\ UNCHANGED <<up, down, remote>>

SendEnds ==
  /\ pc = "sending"
  /\ remote.state # "waiting"
  /\ pc' = "reading"
  /\ UNCHANGED <<up, down, remote, result>>

StatusWord(status) ==
  CASE status \in {401, 403} -> "auth_required"
    [] status = 429 -> "rate_limited"
    [] OTHER -> "http_error"

\* Status first: only a 200 is looked into.
ByStatus(status, text, field) ==
  IF status # 200 THEN [ok |-> FALSE, meta |-> StatusWord(status)]
  ELSE IF field \in text.has THEN [ok |-> TRUE, meta |-> "ok"]
  ELSE [ok |-> FALSE,
        meta |-> IF field = "result" /\ "error" \in text.has THEN "rpc_error" ELSE "api_error"]

\* Body first: an endpoint that refuses the invalid transaction is alive.
ByBody(status, text) ==
  IF ~text.json THEN [ok |-> FALSE, meta |-> StatusWord(status)]
  ELSE IF text.has \cap {"result", "error"} # {} THEN [ok |-> TRUE, meta |-> "ok"]
  ELSE [ok |-> FALSE, meta |-> "api_error"]

Verdict(status, text) ==
  CASE Probes = "https_json_rpc" -> ByStatus(status, text, "result")
    [] Probes = "beacon_https" -> ByStatus(status, text, "data.version")
    [] Probes = "https_json_rpc_write" -> ByBody(status, text)
    [] Probes = "http_control" ->
         [ok |-> status = 200 /\ (Expects => text.expected), meta |-> "none"]

Judge(text) ==
  LET v == Verdict(remote.status, text) IN Return(v.ok, TRUE, v.meta)

\* Mutant: the verdict does not wait for the body.
JudgeEarly ==
  /\ pc = "reading"
  /\ Judge(CHOOSE body \in Bodies : body.json /\ body.has = Fields)
  /\ UNCHANGED <<up, down, remote>>

ReadBody ==
  /\ pc = "reading"
  /\ remote.state = "whole"
  /\ Judge(remote.body)
  /\ UNCHANGED <<up, down, remote>>

\* The connection breaks, or the client's time is up, before the body ends.
ReadFails ==
  /\ pc = "reading"
  /\ Judge(EmptyBody)
  /\ UNCHANGED <<up, down, remote>>

Probe ==
  \/ BuildClient \/ BuildFails
  \/ SendEnds \/ SendFails
  \/ ReadBody \/ ReadFails

\* The server sends its status line, and later the rest.
Respond ==
  \/ /\ remote.state = "waiting" /\ pc = "sending"
     /\ \E s \in Statuses : remote' = [remote EXCEPT !.state = "headed", !.status = s]
  \/ /\ remote.state = "headed"
     /\ \E b \in Bodies : remote' = [remote EXCEPT !.state = "whole", !.body = b]

Server == pc # "done" /\ Respond /\ UNCHANGED <<pc, up, down, result>>

\* A pass has the answer that this probe asks for behind it, received to the
\* end: the field of its own method or the text expected, under status 200
\* except for the write probe, which an error from the provider satisfies.  No
\* status alone passes, no body cut short and no page of somebody else's.
\* (http_control without an expect_body asks for the status only.)
PassNeedsAnswer ==
  result.ok /\ (Probes = "http_control" => Expects) =>
    /\ remote.state = "whole"
    /\ Probes # "https_json_rpc_write" => remote.status = 200
    /\ Probes = "https_json_rpc" => "result" \in remote.body.has
    /\ Probes = "beacon_https" => "data.version" \in remote.body.has
    /\ Probes = "https_json_rpc_write" => remote.body.has \cap {"result", "error"} # {}
    /\ Probes = "http_control" => remote.body.expected

=============================================================================

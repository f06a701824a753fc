------------------------------- MODULE SignIn -------------------------------
(***************************************************************************)
(* The loopback part of signing in (core/src/oauth.rs): a listener on an   *)
(* ephemeral port serves one connection at a time until a request carries  *)
(* the browser's redirect, then the code is exchanged for tokens.          *)
(*                                                                         *)
(* The browser is the environment.  It opens connections in any order,     *)
(* some of which it never writes to.  Requests are abstracted to what      *)
(* their query string says (parse_query_string); `split' is a redirect     *)
(* whose first segment ends before the parameters, `empty' a connection    *)
(* closed without a request line, `broken' one that is reset, `foreign' a   *)
(* redirect with the state of another sign-in, such as an older tab's.      *)
(***************************************************************************)
EXTENDS Naturals, Sequences, SequencesExt

CONSTANT MaxConnections  \* bound: connections a browser opens during one sign-in

ASSUME SignInAssumption == MaxConnections \in Nat

VARIABLES
    flow,      \* what run_loopback_oauth_flow is doing
    conn,      \* the connection it reads from
    backlog,   \* connections the listener has not accepted, oldest first
    opened     \* connections opened in this sign-in (for the bound)

vars == <<flow, conn, backlog, opened>>

NoConn == "none"
Redirects == {"redirect", "foreign", "denied"}
Requests == Redirects \union {"stray", "split", "empty", "broken"}
Connections == Requests \union {"silent"}
Phases == {"idle", "accepting", "reading", "exchanging", "tokens", "failed"}

Init ==
    /\ flow = "idle" /\ conn = NoConn /\ backlog = <<>> /\ opened = 0

\* Binds the port before the browser starts, so no redirect comes too early.
StartSignIn ==
    /\ flow \in {"idle", "failed"}
    /\ flow' = "accepting" /\ conn' = NoConn /\ backlog' = <<>> /\ opened' = 0

Listening == flow \in {"accepting", "reading"}

\* The browser, or any local program, connects.
Connect(c) ==
    /\ Listening /\ opened < MaxConnections
    /\ backlog' = Append(backlog, c)
    /\ opened' = opened + 1
    /\ UNCHANGED <<flow, conn>>

\* The browser gives up a connection it never wrote to: read returns 0 bytes.
CloseSilent ==
    /\ Listening
    /\ \/ conn = "silent" /\ conn' = "empty" /\ UNCHANGED backlog
       \/ \E i \in DOMAIN backlog :
             /\ backlog[i] = "silent"
             /\ backlog' = [backlog EXCEPT ![i] = "empty"]
             /\ UNCHANGED conn
    /\ UNCHANGED <<flow, opened>>

Accept ==
    /\ flow = "accepting" /\ backlog # <<>>
    /\ flow' = "reading" /\ conn' = Head(backlog) /\ backlog' = Tail(backlog)
    /\ UNCHANGED opened

\* What one request does to the flow.  Requests without the parameters are
\* answered, or not even that, and the loop goes on; the state is compared
\* after the loop has ended.
Outcome(c) ==
    CASE c = "redirect"                     -> "exchanging"
      [] c \in {"foreign", "denied", "broken"} -> "failed"
      [] OTHER                              -> "accepting"

\* Mutant: what is not a redirect is read again.
Serve_Insists ==
    /\ flow = "reading" /\ conn \in Redirects
    /\ flow' = Outcome(conn) /\ conn' = NoConn /\ backlog' = <<>>
    /\ UNCHANGED opened

\* One read of one connection; it waits as long as nothing is sent.
Serve ==
    /\ flow = "reading" /\ conn # "silent"
    /\ flow' = Outcome(conn)
    /\ conn' = NoConn
    /\ backlog' = IF Outcome(conn) = "accepting" THEN backlog ELSE <<>>
    /\ UNCHANGED opened

\* The token endpoint answers, with or without the refresh token asked for.
Exchange ==
    /\ flow = "exchanging"
    /\ flow' \in {"tokens", "failed"}
    /\ UNCHANGED <<conn, backlog, opened>>

\* The caller takes the tokens.
TakeTokens ==
    /\ flow = "tokens" /\ flow' = "idle"
    /\ UNCHANGED <<conn, backlog, opened>>

Next ==
    \/ StartSignIn \/ Accept \/ Serve \/ Exchange \/ CloseSilent \/ TakeTokens
    \/ \E c \in Connections : Connect(c)

\* The flow's task is scheduled by the runtime; the browser gives up the
\* connections it never uses.  Nothing makes it connect or the user consent.
Fairness == WF_vars(Accept) /\ WF_vars(Serve) /\ WF_vars(CloseSilent)

Spec == Init /\ [][Next]_vars /\ Fairness

-----------------------------------------------------------------------------
\* The redirect that carries the code for this sign-in is waiting.
RedirectWaits ==
    Listening /\ (conn = "redirect" \/ Contains(backlog, "redirect"))

\* A redirect that has reached the port ends the sign-in, whatever else the
\* browser connected before it (accept_authorization_redirect "keep
\* listening for the real one").  It rests on the browser closing, at last,
\* the connections it opened and never used: the code has no timeout.
RedirectEndsSignIn == RedirectWaits ~> ~Listening
=============================================================================

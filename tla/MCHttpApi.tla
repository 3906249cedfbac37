----------------------------- MODULE MCHttpApi -----------------------------
(* HttpApi on a small instance.                                            *)
EXTENDS HttpApi

CONSTANTS FirstHost, Guest, NextHost

\* Who may host pings as well, or there is nothing for ApiFairness to be about.
Roles ==
  [p \in Caller |->
     CASE p = FirstHost -> {"RegisterHost", "UnregisterHost", "Ping"}
       [] p = Guest     -> {"Join"}
       [] p = NextHost  -> {"RegisterHost", "Ping", "ReportLeave"}]
=============================================================================

----------------------------- MODULE Transport ------------------------------
(***************************************************************************)
(* The HTTP client (ApiClient, client/src/transport/client.ts) as its      *)
(* callers see it: the quote side and the intent side, which share no      *)
(* state but the client they are methods of.                               *)
(***************************************************************************)
EXTENDS QuoteCache, IntentCalls

\* The transport's answers: a caller gets a quote as fresh as it asked for, an execute that may have
\* been accepted is never reported as refused, and a token never leaves its origin.
\* Code: ApiClient.getQuote, executeIntent, getIntentStatus.
TransportSound == QuotesSound /\ AnswersSound
=============================================================================

----------------------------- MODULE QuoteCache -----------------------------
(***************************************************************************)
(* The quote side of the HTTP client (client/src/transport/client.ts):     *)
(* getQuote with its cache, its table of fetches in flight and its forced  *)
(* refresh, invalidateQuote, clearQuoteCache, and the retry loop of        *)
(* sendWithRetry around one quote request.                                 *)
(*                                                                         *)
(* A fetch and the quote it returns are named by the call that started it. *)
(* The server answers a fetch with a quote, a quote that carries a pull    *)
(* authorization (a single-use nonce), a declined quote, a status worth    *)
(* another attempt, or a failure that is not.                              *)
(***************************************************************************)
EXTENDS Integers, Sequences, SequencesExt

CONSTANTS
  QuoteCalls,      \* the calls of getQuote
  RequestOf,       \* the request hash of each call
  ForcedCalls,     \* the calls made with forceRefresh
  QuoteTtl,        \* quoteCacheTtlMs
  QuoteAttempts,   \* RetryPolicy.maxAttempts
  MaxQuoteClock    \* bound on the clock

VARIABLES
  quoteClock,      \* Date.now(), in cache ticks
  quoteCache,      \* request hash -> the cached quote, with its timestamp
  pendingQuotes,   \* request hash -> the fetch in flight that calls share
  fetches,         \* call -> its fetch, if it started one
  getQuotes,       \* call -> what became of it
  begun            \* the calls in the order they were made (history)

quoteVars == <<quoteClock, quoteCache, pendingQuotes, fetches, getQuotes, begun>>

NoCall == "none"

ASSUME QuoteCacheAssumption == NoCall \notin QuoteCalls

NoCached == [quote |-> NoCall, timestamp |-> 0]
NotFetched == [open |-> FALSE, attempt |-> 0, pull |-> FALSE]

\* A call: not made, sharing the fetch of "from", served the quote of "from"
\* (off the cache or not), or failed.
QuoteCall(st, f, cached) == [st |-> st, from |-> f, cached |-> cached]

hashQuoteRequest(c) == RequestOf[c]
Hashes == {hashQuoteRequest(c) : c \in QuoteCalls}

QuoteInit ==
  /\ quoteClock = 0
  /\ quoteCache = [k \in Hashes |-> NoCached]
  /\ pendingQuotes = [k \in Hashes |-> NoCall]
  /\ fetches = [c \in QuoteCalls |-> NotFetched]
  /\ getQuotes = [c \in QuoteCalls |-> QuoteCall("none", NoCall, FALSE)]
  /\ begun = <<>>

cachedQuote(k) ==
  IF quoteClock - quoteCache[k].timestamp < QuoteTtl THEN quoteCache[k].quote ELSE NoCall

\* Mutant: a forced refresh joins the fetch in flight.
refreshed_CacheOnly(c, k) ==
  /\ quoteCache' = IF c \in ForcedCalls THEN [quoteCache EXCEPT ![k] = NoCached] ELSE quoteCache
  /\ pendingQuotes' = IF pendingQuotes[k] = NoCall THEN [pendingQuotes EXCEPT ![k] = c]
                      ELSE pendingQuotes

\* What a forced refresh drops before it looks anything up.
refreshed(c, k) ==
  /\ quoteCache' = IF c \in ForcedCalls THEN [quoteCache EXCEPT ![k] = NoCached] ELSE quoteCache
  /\ pendingQuotes' = IF c \in ForcedCalls THEN [pendingQuotes EXCEPT ![k] = c]
                      ELSE IF pendingQuotes[k] = NoCall THEN [pendingQuotes EXCEPT ![k] = c]
                      ELSE pendingQuotes

\* getQuote up to its first await: the cache, the fetch in flight, a new fetch.
GetQuote(c) ==
  /\ getQuotes[c].st = "none"
  /\ begun' = Append(begun, c)
  /\ LET k == hashQuoteRequest(c)
         cached == cachedQuote(k)
     IN IF c \notin ForcedCalls /\ cached # NoCall
        THEN /\ getQuotes' = [getQuotes EXCEPT ![c] = QuoteCall("served", cached, TRUE)]
             /\ UNCHANGED <<quoteCache, pendingQuotes, fetches>>
        ELSE /\ refreshed(c, k)
             /\ LET f == pendingQuotes'[k]
                IN /\ getQuotes' = [getQuotes EXCEPT ![c] = QuoteCall("waiting", f, FALSE)]
                   /\ fetches' = IF f = c
                                 THEN [fetches EXCEPT ![c] = [open |-> TRUE, attempt |-> 1, pull |-> FALSE]]
                                 ELSE fetches
  /\ UNCHANGED quoteClock

\* Mutant: the fetch a refresh started is forgotten when the older one ends.
unpended_Always(f, k) == [pendingQuotes EXCEPT ![k] = NoCall]

\* The caller that started the fetch forgets it, unless a refresh replaced it.
unpended(f, k) ==
  IF pendingQuotes[k] = f THEN [pendingQuotes EXCEPT ![k] = NoCall] ELSE pendingQuotes

\* Mutant: a quote that carries a pull authorization is cached.
keeps_Pulls(answer) == answer \in {"quote", "pull"}

\* Only a successful quote without a pull authorization is kept.
keeps(answer) == answer = "quote"

settle(f, st) ==
  getQuotes' = [c \in QuoteCalls |->
                  IF getQuotes[c].st = "waiting" /\ getQuotes[c].from = f
                  THEN QuoteCall(st, f, FALSE) ELSE getQuotes[c]]

\* An answer that carries a quote resolves the fetch for everyone who shares it.
QuoteAnswered(f) ==
  \E answer \in {"quote", "pull", "declined"} :
    LET k == hashQuoteRequest(f)
    IN /\ fetches[f].open
       /\ fetches' = [fetches EXCEPT ![f].open = FALSE, ![f].pull = (answer = "pull")]
       /\ quoteCache' = IF keeps(answer)
                        THEN [quoteCache EXCEPT ![k] = [quote |-> f, timestamp |-> quoteClock]]
                        ELSE quoteCache
       /\ pendingQuotes' = unpended(f, k)
       /\ settle(f, "served")
       /\ UNCHANGED <<quoteClock, begun>>

\* A gateway status (502, 503, 504) or a network failure, with attempts left.
QuoteRetried(f) ==
  /\ fetches[f].open
  /\ fetches[f].attempt < QuoteAttempts
  /\ fetches' = [fetches EXCEPT ![f].attempt = @ + 1]
  /\ UNCHANGED <<quoteClock, quoteCache, pendingQuotes, getQuotes, begun>>

\* A failure no attempt follows: another status, a timeout, or the last attempt.
QuoteFailed(f) ==
  /\ fetches[f].open
  /\ fetches' = [fetches EXCEPT ![f].open = FALSE]
  /\ pendingQuotes' = unpended(f, hashQuoteRequest(f))
  /\ settle(f, "failed")
  /\ UNCHANGED <<quoteClock, quoteCache, begun>>

InvalidateQuote(k) ==
  /\ quoteCache[k] # NoCached
  /\ quoteCache' = [quoteCache EXCEPT ![k] = NoCached]
  /\ UNCHANGED <<quoteClock, pendingQuotes, fetches, getQuotes, begun>>

ClearQuoteCache ==
  /\ \E k \in Hashes : quoteCache[k] # NoCached
  /\ quoteCache' = [k \in Hashes |-> NoCached]
  /\ UNCHANGED <<quoteClock, pendingQuotes, fetches, getQuotes, begun>>

QuoteTick ==
  /\ quoteClock < MaxQuoteClock
  /\ quoteClock' = quoteClock + 1
  /\ UNCHANGED <<quoteCache, pendingQuotes, fetches, getQuotes, begun>>

QuoteNext ==
  \/ \E c \in QuoteCalls : GetQuote(c) \/ QuoteAnswered(c) \/ QuoteRetried(c) \/ QuoteFailed(c)
  \/ \E k \in Hashes : InvalidateQuote(k)
  \/ ClearQuoteCache
  \/ QuoteTick

-----------------------------------------------------------------------------

\* Calls f and c of one request with a forced refresh made after f, and no
\* later than c.
Refreshed(f, c) ==
  \E i, j, l \in DOMAIN begun :
    /\ begun[i] = f /\ begun[j] \in ForcedCalls /\ begun[l] = c
    /\ i < j /\ j <= l
    /\ hashQuoteRequest(begun[j]) = hashQuoteRequest(f)

\* A fetch in flight is shared by exactly the calls no forced refresh separates
\* from it: a call never waits for a fetch a refresh has overtaken, a call made
\* before the answer never starts a second fetch of its own unless a refresh
\* did, and every fetch nobody can join any more was overtaken by one.
SharedUntilRefreshed ==
  /\ \A c \in QuoteCalls :
       getQuotes[c].st = "waiting" => ~Refreshed(getQuotes[c].from, c)
  /\ \A f \in QuoteCalls :
       (fetches[f].open /\ pendingQuotes[hashQuoteRequest(f)] # f)
         => Refreshed(f, Last(begun))

\* A quote that carries a pull authorization, whose nonce can be signed once,
\* reaches only calls that were already waiting when it arrived, so no later
\* trade signs it again, whatever refreshes and late answers cross.
PullNeverCached ==
  \A c \in QuoteCalls : getQuotes[c].cached => ~fetches[getQuotes[c].from].pull

\* What a caller of getQuote may rely on (client.ts:971-1016): see the two parts.
QuotesSound == SharedUntilRefreshed /\ PullNeverCached
=============================================================================

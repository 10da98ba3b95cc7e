---------------------------- MODULE WidgetBridge ----------------------------
(***************************************************************************)
(* The wallet bridge of the embedded widget: the host page's side          *)
(* (createXochiWidget, widget-lib/src/widget.ts) and the frame's side      *)
(* (connectToHost, widget-lib/src/frame.ts), which talk by postMessage.    *)
(*                                                                         *)
(* The frame is reloaded, by the host (updateParams) or by itself, while   *)
(* requests sit at the wallet and messages are on their way.  Messages     *)
(* arrive in order.  One posted to a document that is gone is never        *)
(* delivered; one posted by such a document reaches the host as if the     *)
(* current one had sent it (its WindowProxy outlives it).                  *)
(* Documents number their requests from 1, so only the bridge tells the    *)
(* requests of two documents apart.                                        *)
(***************************************************************************)
EXTENDS Integers, Sequences, FiniteSets

CONSTANTS
  AutoConnect,      \* XochiWidgetOptions.autoConnect
  MaxPendingRpc,    \* MAX_PENDING_RPC
  MaxDocuments,     \* bound on the documents the frame loads
  MaxRequests,      \* bound on the requests of one document
  MaxSwaps,         \* bound on the calls of updateProvider
  MaxWalletEvents   \* bound on the events the wallet emits

ASSUME BridgeConstants == AutoConnect \in BOOLEAN /\ MaxPendingRpc \in Nat

VARIABLES
  host,             \* the closure of createXochiWidget
  document,         \* the number of the document in the frame
  navigating,       \* the host changed the frame's src; the document still runs
  frame,            \* the closure of connectToHost in that document
  toHost, toFrame,  \* messages posted and not delivered
  wallet,           \* requests unsettled at the provider
  swaps, walletEvents,
  resolved,         \* what each document's requests were resolved with (history)
  heard,            \* the documents that got provider events (history)
  asked,            \* the documents whose own request returned accounts (history)
  toldEarly         \* the documents that were told of a wallet before the host
                    \* had handled their ready (history)

bridgeVars == <<host, document, navigating, frame, toHost, toFrame, wallet, swaps,
                walletEvents, resolved, heard, asked, toldEarly>>

NoWallet == "nobody"
Connection == [pinned |-> FALSE, available |-> FALSE, nextId |-> 1, pending |-> {}, destroyed |-> FALSE]

BridgeInit ==
  /\ host \in [provider : {NoWallet, "w1"}, ready : {FALSE}, session : {0}, pending : {{}},
               inFlight : {0}, connected : {AutoConnect}, destroyed : {FALSE}]
  /\ document = 1
  /\ navigating = FALSE
  /\ frame = Connection
  /\ toHost = <<[type |-> "ready", doc |-> 1, id |-> 0, accounts |-> FALSE]>>
  /\ toFrame = <<>>
  /\ wallet = {}
  /\ swaps = 0
  /\ walletEvents = 0
  /\ resolved = {}
  /\ heard = {}
  /\ asked = {}
  /\ toldEarly = {}

\* Host messages.  "doc" is not in the code's message: it says whose request a
\* result answers, for the properties.
Provider(available) == [type |-> "provider", available |-> available, id |-> 0, doc |-> 0, ok |-> FALSE]
Result(r, ok) == [type |-> "rpcResult", available |-> FALSE, id |-> r.id, doc |-> r.doc, ok |-> ok]
Event == [type |-> "providerEvent", available |-> FALSE, id |-> 0, doc |-> 0, ok |-> FALSE]

attached(h) == h.provider # NoWallet

\* The document told of a wallet now, with these messages of the frame still to be handled.
tellsEarly(waiting) ==
  IF \E i \in DOMAIN waiting : waiting[i].type = "ready" THEN toldEarly \cup {document} ELSE toldEarly

-----------------------------------------------------------------------------
(* The host page.                                                          *)

\* Mutant: a new document inherits the connection of the last.
onReady_Connected(h) ==
  [h EXCEPT !.session = @ + 1, !.pending = {}, !.ready = TRUE]

\* Mutant: a new document does not begin a session.
onReady_SameSession(h) ==
  [h EXCEPT !.pending = {}, !.connected = AutoConnect, !.ready = TRUE]

\* A new document announces itself: a new session, nothing pending, not connected.
onReady(h) ==
  [h EXCEPT !.session = @ + 1, !.pending = {}, !.connected = AutoConnect, !.ready = TRUE]

\* onMessage of the host: a ready, or a request (handleRpc).
HostReceives ==
  /\ toHost # <<>>
  /\ ~host.destroyed
  /\ toHost' = Tail(toHost)
  /\ LET m == Head(toHost)
     IN IF m.type = "ready"
        THEN /\ host' = onReady(host)
             /\ toFrame' = Append(toFrame, Provider(attached(host)))
             /\ toldEarly' = tellsEarly(Tail(toHost))
             /\ UNCHANGED wallet
        ELSE IF m.id \in host.pending
        THEN UNCHANGED <<host, toFrame, wallet, toldEarly>>
        ELSE IF ~attached(host) \/ host.inFlight >= MaxPendingRpc
        THEN /\ toFrame' = Append(toFrame, Result(m, FALSE))
             /\ UNCHANGED <<host, wallet, toldEarly>>
        ELSE /\ host' = [host EXCEPT !.pending = @ \cup {m.id}, !.inFlight = @ + 1]
             /\ wallet' = wallet \cup {[doc |-> m.doc, id |-> m.id, accounts |-> m.accounts,
                                        session |-> host.session]}
             /\ UNCHANGED <<toFrame, toldEarly>>
  /\ UNCHANGED <<document, navigating, frame, swaps, walletEvents, resolved, heard, asked>>

\* The wallet settles a request; its answer goes to the session that asked.
WalletSettles(r, ok) ==
  /\ wallet' = wallet \ {r}
  /\ IF host.destroyed \/ r.session # host.session
     THEN /\ host' = [host EXCEPT !.inFlight = @ - 1]
          /\ UNCHANGED <<toFrame, asked>>
     ELSE /\ host' = [host EXCEPT !.inFlight = @ - 1, !.pending = @ \ {r.id},
                                  !.connected = @ \/ (r.accounts /\ ok)]
          /\ toFrame' = Append(toFrame, Result(r, ok))
          /\ asked' = IF r.accounts /\ ok THEN asked \cup {r.doc} ELSE asked
  /\ UNCHANGED <<document, navigating, frame, toHost, swaps, walletEvents, resolved, heard, toldEarly>>

\* providerHandlers: accountsChanged, chainChanged, disconnect.
WalletEmits ==
  /\ attached(host)
  /\ walletEvents < MaxWalletEvents
  /\ walletEvents' = walletEvents + 1
  /\ toFrame' = IF host.ready /\ ~host.destroyed /\ host.connected THEN Append(toFrame, Event) ELSE toFrame
  /\ UNCHANGED <<host, document, navigating, frame, toHost, wallet, swaps, resolved, heard, asked, toldEarly>>

UpdateProvider(next) ==
  /\ ~host.destroyed
  /\ next # host.provider
  /\ swaps < MaxSwaps
  /\ swaps' = swaps + 1
  /\ host' = [host EXCEPT !.provider = next]
  /\ toFrame' = IF host.ready THEN Append(toFrame, Provider(next # NoWallet)) ELSE toFrame
  /\ toldEarly' = IF host.ready THEN tellsEarly(toHost) ELSE toldEarly
  /\ UNCHANGED <<document, navigating, frame, toHost, wallet, walletEvents, resolved, heard, asked>>

\* New params: a new session at once; the frame navigates when the browser does.
UpdateParams ==
  /\ ~host.destroyed
  /\ ~navigating
  /\ document < MaxDocuments
  /\ navigating' = TRUE
  /\ host' = [host EXCEPT !.ready = FALSE, !.session = @ + 1, !.pending = {}, !.connected = AutoConnect]
  /\ UNCHANGED <<document, frame, toHost, toFrame, wallet, swaps, walletEvents, resolved, heard, asked, toldEarly>>

\* The frame goes with the page's element: no document runs after it.
DestroyWidget ==
  /\ ~host.destroyed
  /\ host' = [host EXCEPT !.destroyed = TRUE, !.provider = NoWallet, !.pending = {}]
  /\ frame' = [Connection EXCEPT !.destroyed = TRUE]
  /\ toHost' = <<>>
  /\ toFrame' = <<>>
  /\ navigating' = FALSE
  /\ UNCHANGED <<document, wallet, swaps, walletEvents, resolved, heard, asked, toldEarly>>

-----------------------------------------------------------------------------
(* The frame.                                                              *)

\* A document is loaded, by the host's change or the frame's own reload, and
\* connects.
LoadDocument ==
  /\ ~host.destroyed
  /\ document < MaxDocuments
  /\ document' = document + 1
  /\ navigating' = FALSE
  /\ frame' = Connection
  /\ toHost' = Append(toHost, [type |-> "ready", doc |-> document + 1, id |-> 0, accounts |-> FALSE])
  /\ toFrame' = <<>>
  /\ UNCHANGED <<host, wallet, swaps, walletEvents, resolved, heard, asked, toldEarly>>

\* request: eth_requestAccounts and eth_accounts ask for accounts.
FrameRequests(accounts) ==
  /\ ~frame.destroyed
  /\ frame.pinned /\ frame.available
  /\ Cardinality(frame.pending) < MaxPendingRpc
  /\ frame.nextId <= MaxRequests
  /\ frame' = [frame EXCEPT !.nextId = @ + 1, !.pending = @ \cup {frame.nextId}]
  /\ toHost' = Append(toHost, [type |-> "rpc", doc |-> document, id |-> frame.nextId, accounts |-> accounts])
  /\ UNCHANGED <<host, document, navigating, toFrame, wallet, swaps, walletEvents, resolved, heard, asked, toldEarly>>

\* setAvailable: a detached wallet rejects what is pending.
setAvailable(f, available) ==
  [f EXCEPT !.pinned = TRUE, !.available = available,
            !.pending = IF f.available /\ ~available THEN {} ELSE @]

\* onMessage of the frame.  Only the host's xochi:provider pins its origin;
\* before it, every message is ignored.
FrameReceives ==
  /\ toFrame # <<>>
  /\ toFrame' = Tail(toFrame)
  /\ LET m == Head(toFrame)
     IN CASE m.type = "provider" /\ ~frame.destroyed ->
               /\ frame' = setAvailable(frame, m.available)
               /\ UNCHANGED <<resolved, heard>>
          [] m.type = "rpcResult" /\ frame.pinned /\ m.id \in frame.pending ->
               /\ frame' = [frame EXCEPT !.pending = @ \ {m.id}]
               /\ resolved' = resolved \cup {[doc |-> document, id |-> m.id, from |-> m.doc]}
               /\ UNCHANGED heard
          [] m.type = "providerEvent" /\ frame.pinned /\ ~frame.destroyed ->
               /\ heard' = heard \cup {document}
               /\ UNCHANGED <<frame, resolved>>
          [] OTHER -> UNCHANGED <<frame, resolved, heard>>
  /\ UNCHANGED <<host, document, navigating, toHost, wallet, swaps, walletEvents, asked, toldEarly>>

\* The frame closes the bridge: what is pending is rejected.
FrameDestroys ==
  /\ ~frame.destroyed
  /\ frame' = [frame EXCEPT !.destroyed = TRUE, !.pending = {}]
  /\ UNCHANGED <<host, document, navigating, toHost, toFrame, wallet, swaps, walletEvents, resolved, heard, asked, toldEarly>>

BridgeNext ==
  \/ HostReceives \/ WalletEmits \/ UpdateParams \/ DestroyWidget
  \/ \E r \in wallet, ok \in BOOLEAN : WalletSettles(r, ok)
  \/ \E next \in {NoWallet, "w1", "w2"} : UpdateProvider(next)
  \/ LoadDocument \/ FrameReceives \/ FrameDestroys
  \/ \E accounts \in BOOLEAN : FrameRequests(accounts)

-----------------------------------------------------------------------------

\* A request of one document is never resolved with the wallet's answer to a
\* request of an earlier one, though both carry the same id (widget.ts:177,
\* "an answer never reaches a later document"), unless the host told that
\* document of a wallet before it handled the document's ready: the session is
\* bumped by the ready, and a swap of wallets, or the late ready of the document
\* before, pins the document earlier.
AnswersOwnDocument == \A a \in resolved : a.from = a.doc \/ a.doc \in toldEarly

\* A document hears of the wallet's accounts and chain only after a request of
\* its own returned accounts, unless the host opted into autoConnect (or swapped
\* as above): a reload inherits no connection, whatever events were on their way.
HeardAfterAsking == AutoConnect \/ heard \subseteq asked \cup toldEarly

\* Across reloads, no more requests are unsettled at the wallet than the cap,
\* and the count the cap reads is theirs.
WalletNotFlooded ==
  /\ host.inFlight = Cardinality(wallet)
  /\ host.inFlight <= MaxPendingRpc

\* What the bridge promises both sides: see the three parts.
BridgeSound == AnswersOwnDocument /\ HeardAfterAsking /\ WalletNotFlooded
=============================================================================

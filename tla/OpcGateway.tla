----------------------------- MODULE OpcGateway -----------------------------
(***************************************************************************)
(* The users of an opcda-bridge gateway outside a tune: the /api/opc       *)
(* routes of the server and the `bhtune opc` commands.                     *)
(*                                                                         *)
(* Every request is a plan: a fixed sequence of gateway calls on a         *)
(* connection of its own.  The gateway is shared and external.  It keeps   *)
(* browse sessions, live searches and one namespace index, it may answer,  *)
(* refuse or not answer at all, it expires sessions, and it restarts.  A   *)
(* route gives every call a deadline; a command waits until its user stops *)
(* it.                                                                     *)
(***************************************************************************)
EXTENDS Integers, Sequences, FiniteSets

CONSTANTS
    Http,           \* requests in flight at the server
    Cli,            \* command lines
    Nil,            \* nobody, and no session
    Late,           \* the value of a write that was given up and landed later
    PageCounts,     \* how many pages a listing may have
    MaxPages,       \* 10,000 in collect_browse_pages
    MaxSessions, MaxRequests

\* A client is at the server or at a command line; a listing has pages.
ASSUME GatewayAssumption ==
    /\ Http \cap Cli = {}
    /\ PageCounts \subseteq Nat \ {0} /\ MaxPages \in Nat \ {0}
    /\ Nil \notin Http \cup Cli \cup Nat
    /\ Late \notin Http \cup Cli \cup {Nil}

User == Http \cup Cli

VARIABLES
    compat,     \* "full" or "incompatible": the gateway; never changes
    size,       \* the pages of every browse session ever opened
    live,       \* the sessions the gateway still knows
    searching,  \* the clients for which the gateway runs a live search
    index,      \* the namespace index: "absent", "building", "paused", "ready"
    owner,      \* who owns the written tag (LiveOperationGuard)
    written,    \* whose value the tag holds
    stray,      \* how many writes given up without an answer may still land
    op,         \* per client, the request it is serving, "idle" when none
    at,         \* per client, the call it is at
    hung,       \* per client, whether that call is left without an answer
    cursor,     \* per client, the page it asks for: [session, page]
    out,        \* per client, the pages it was given
    result,     \* per client, what became of its write
    said,       \* per client, how the last request ended
    events,     \* changes with every event of a search
    requests

gateway  == <<compat, size, live, searching, index, owner, written, stray>>
progress == <<op, at, hung>>
told     == <<cursor, out, result, said>>
budget   == <<events, requests>>
gatewayVars == <<gateway, progress, told, budget>>

-----------------------------------------------------------------------------
(* The plans of the routes ...                                             *)

IndexOps == {"index_status", "index_search", "index_refresh", "index_auto",
             "index_delete", "index_control"}

ServersPlan      == <<"list", "inspect">>
CapabilitiesPlan == <<"connect", "inspect", "caps">>
BrowsePlan       == <<"connect", "inspect", "browse">>
ClosePlan        == <<"connect", "close">>
SearchPlan       == <<"connect", "search", "stream">>
ReadPlan         == <<"connect", "inspect", "read">>
IndexPlan(o)     == <<"connect", o>>

HttpPlan(o) ==
    CASE o = "servers" -> ServersPlan
      [] o = "capabilities" -> CapabilitiesPlan
      [] o = "browse" -> BrowsePlan
      [] o = "close" -> ClosePlan
      [] o = "search" -> SearchPlan
      [] o = "read" -> ReadPlan
      [] OTHER -> IndexPlan(o)

HttpOps == {"servers", "capabilities", "browse", "close", "search", "read"} \cup IndexOps

(* ... and of the commands.                                                *)

InfoCommand      == <<"info", "compat">>
ServersCommand   == <<"list">>
ReadCommand      == <<"connect", "read">>
WriteCommand     == <<"acquire", "connect", "write", "release">>
BrowseCommand    == <<"connect", "browse">>
CloseCommand     == <<"close">>
SearchCommand    == <<"connect", "search", "stream">>

CliPlan(o) ==
    CASE o = "info" -> InfoCommand
      [] o = "servers" -> ServersCommand
      [] o = "read" -> ReadCommand
      [] o = "write" -> WriteCommand
      [] o \in {"browse", "browse_all"} -> BrowseCommand
      [] o = "close" -> CloseCommand
      [] o = "search" -> SearchCommand
      [] OTHER -> IndexPlan(o)

CliOps == {"info", "servers", "read", "write", "browse", "browse_all", "close", "search",
           "index_status", "index_search", "index_refresh", "index_control"}

Ops(c)  == IF c \in Http THEN HttpOps ELSE CliOps
Plan(c) == IF c \in Http THEN HttpPlan(op[c]) ELSE CliPlan(op[c])
Call(c) == Plan(c)[at[c]]

Busy(c) == op[c] # "idle"
Waits(c, call) == Busy(c) /\ ~hung[c] /\ Call(c) = call

-----------------------------------------------------------------------------
(* The end of a call and of a request.                                     *)

Root == [session |-> Nil, page |-> 1]

Told(c, how) == said' = [said EXCEPT ![c] = how]

\* The connection is dropped with the request, and a search with its stream.
Drop(c) ==
    /\ op' = [op EXCEPT ![c] = "idle"]
    /\ at' = [at EXCEPT ![c] = 1]
    /\ hung' = [hung EXCEPT ![c] = FALSE]
    /\ searching' = searching \ {c}

Finish(c, how) == Drop(c) /\ Told(c, how)

\* The next call of the plan, or the answer after the last one.
Advance(c) ==
    IF at[c] = Len(Plan(c)) THEN Finish(c, "ok")
    ELSE /\ at' = [at EXCEPT ![c] = @ + 1]
         /\ hung' = [hung EXCEPT ![c] = FALSE]
         /\ UNCHANGED <<op, said, searching>>

\* map_bridge_error_for: which errors a caller can tell apart.
MapBridgeError(code, call) ==
    CASE code = "incompatible" -> "incompatible"
      [] code = "unreachable" -> "connect"
      [] code = "precondition" /\ call \in IndexOps -> "index_rejected"
      [] code = "not_found" /\ call \in {"browse", "close"} -> "browse_state_invalid"
      [] OTHER -> "operation"

\* The two routes that answer with an empty, warned-about result.
Degrades(c, error) ==
    c \in Http /\ error = "incompatible" /\ Call(c) \in {"caps", "browse"}

\* Mutant of Refused: a listing that cannot be continued ends where it is.
RefusedKeepingPages(c, error) ==
    IF Call(c) = "inspect" THEN Advance(c) /\ UNCHANGED result
    ELSE IF op[c] = "write" /\ Call(c) \in {"connect", "write"}
    THEN /\ result' = [result EXCEPT ![c] = "failed"]
         /\ at' = [at EXCEPT ![c] = Len(WriteCommand)]
         /\ hung' = [hung EXCEPT ![c] = FALSE]
         /\ UNCHANGED <<op, said, searching>>
    ELSE /\ Finish(c, IF Degrades(c, error) THEN "degraded"
                      ELSE IF op[c] = "browse_all" /\ out[c] # <<>> THEN "listed" ELSE error)
         /\ UNCHANGED result

\* An error of the current call.  The inspection of the gateway becomes an
\* unverified report, a failed write still releases its ownership.
Refused(c, error) ==
    IF Call(c) = "inspect" THEN Advance(c) /\ UNCHANGED result
    ELSE IF op[c] = "write" /\ Call(c) \in {"connect", "write"}
    THEN /\ result' = [result EXCEPT ![c] = "failed"]
         /\ at' = [at EXCEPT ![c] = Len(WriteCommand)]
         /\ hung' = [hung EXCEPT ![c] = FALSE]
         /\ UNCHANGED <<op, said, searching>>
    ELSE /\ Finish(c, IF Degrades(c, error) THEN "degraded" ELSE error)
         /\ UNCHANGED result

-----------------------------------------------------------------------------
(* Requests.                                                               *)

\* A browse starts at the root or goes on from a page of a session it knows;
\* a close names a session.
Cursors(o) ==
    LET known == [session : DOMAIN size, page : 1 .. MaxPages]
    IN  CASE o \in {"browse", "browse_all"} -> {Root} \cup known
          [] o = "close" -> {k \in known : k.page = 1}
          [] OTHER -> {Root}

Begin(c, o) ==
    /\ ~Busy(c) /\ requests < MaxRequests
    /\ requests' = requests + 1
    /\ \E k \in Cursors(o) : cursor' = [cursor EXCEPT ![c] = k]
    /\ op' = [op EXCEPT ![c] = o]
    /\ out' = [out EXCEPT ![c] = <<>>]
    /\ result' = [result EXCEPT ![c] = "none"]
    /\ Told(c, "none")
    /\ UNCHANGED <<gateway, at, hung, events>>

\* A query without a tag, a page size of zero, a page token without a session.
RefuseRequest(c) ==
    /\ ~Busy(c) /\ requests < MaxRequests
    /\ requests' = requests + 1
    /\ Told(c, "bad_request")
    /\ UNCHANGED <<gateway, progress, cursor, out, result, events>>

\* Calls of an incompatible gateway that need more than its metadata.
Unserved(call) == compat = "incompatible" /\ call \notin {"connect", "list", "info", "compat", "inspect"}

GatewayCalls ==
    {"connect", "list", "info", "compat", "inspect", "caps", "browse", "close", "search",
     "stream", "read", "write"} \cup IndexOps

\* Calls that only ask.
Asked(c) ==
    /\ \E call \in {"connect", "list", "info", "compat", "inspect", "caps", "read",
                    "index_status", "index_search"} : Waits(c, call) /\ ~Unserved(call)
    /\ Advance(c)
    /\ UNCHANGED <<compat, size, live, index, owner, written, stray, cursor, out, result, budget>>

\* A write that ends without the gateway's answer: it did not happen, it
\* happened (and its answer or its audit record was lost), or it is still on
\* its way.  No other call reaches the tag.
GivesUp(c) ==
    \/ UNCHANGED <<written, stray>>
    \/ Call(c) = "write" /\ written' = c /\ UNCHANGED stray
    \/ Call(c) = "write" /\ stray' = stray + 1 /\ UNCHANGED written

\* An error in place of an answer, whatever the gateway had done by then.
Fails(c) ==
    /\ Busy(c) /\ ~hung[c] /\ Call(c) \in GatewayCalls
    /\ \E code \in {"unreachable", "rpc"} \cup
                   IF Unserved(Call(c)) THEN {"incompatible"} ELSE {} :
          Refused(c, MapBridgeError(code, Call(c)))
    /\ GivesUp(c)
    /\ UNCHANGED <<compat, size, live, index, owner, cursor, out, budget>>

Hangs(c) ==
    /\ Busy(c) /\ ~hung[c] /\ Call(c) \in GatewayCalls
    /\ hung' = [hung EXCEPT ![c] = TRUE]
    /\ UNCHANGED <<gateway, op, at, told, budget>>

\* Mutant of TimeOut: the inspection of the gateway is awaited as it is.
TimeOutExceptInspect(c) ==
    /\ c \in Http /\ hung[c] /\ Call(c) # "inspect"
    /\ Refused(c, "timeout")
    /\ UNCHANGED <<compat, size, live, index, owner, written, stray, cursor, out, budget>>

\* timed_driver_call, and the deadline of every event of a search stream.
TimeOut(c) ==
    /\ c \in Http /\ hung[c]
    /\ Refused(c, "timeout")
    /\ UNCHANGED <<compat, size, live, index, owner, written, stray, cursor, out, budget>>

\* A browser goes away: its handler is dropped.
Disconnect(c) ==
    /\ c \in Http /\ Busy(c)
    /\ Finish(c, "dropped")
    /\ UNCHANGED <<compat, size, live, index, owner, written, stray, cursor, out, result, budget>>

\* A user stops a command; what it owns stays owned, what it asked for may
\* still happen.
Interrupt(c) ==
    /\ c \in Cli /\ Busy(c)
    /\ Finish(c, "dropped")
    /\ GivesUp(c)
    /\ UNCHANGED <<compat, size, live, index, owner, cursor, out, result, budget>>

-----------------------------------------------------------------------------
(* Browsing.                                                               *)

\* The page the gateway returns: in a new session when none is named.
Browsed(c, s) ==
    LET page == cursor[c].page
        got  == Append(out[c], [session |-> s, page |-> page])
    IN  /\ out' = [out EXCEPT ![c] = got]
        /\ IF op[c] # "browse_all" \/ page = size'[s]
           THEN /\ Finish(c, IF op[c] = "browse_all" THEN "listed" ELSE "ok")
                /\ UNCHANGED cursor
           ELSE IF Len(got) >= MaxPages
           THEN Finish(c, "too_many_pages") /\ UNCHANGED cursor
           ELSE /\ cursor' = [cursor EXCEPT ![c] = [session |-> s, page |-> page + 1]]
                /\ UNCHANGED <<op, at, hung, said, searching>>

OpenSession(c) ==
    /\ Waits(c, "browse") /\ ~Unserved("browse") /\ cursor[c].session = Nil
    /\ Len(size) < MaxSessions
    /\ \E n \in PageCounts : size' = Append(size, n)
    /\ live' = live \cup {Len(size) + 1}
    /\ Browsed(c, Len(size) + 1)
    /\ UNCHANGED <<compat, index, owner, written, stray, result, budget>>

ContinueSession(c) ==
    /\ Waits(c, "browse") /\ ~Unserved("browse") /\ cursor[c].session # Nil
    /\ UNCHANGED <<size, live>>
    /\ IF cursor[c].session \in live /\ cursor[c].page <= size[cursor[c].session]
       THEN Browsed(c, cursor[c].session) /\ UNCHANGED result
       ELSE Refused(c, MapBridgeError("not_found", "browse")) /\ UNCHANGED <<cursor, out>>
    /\ UNCHANGED <<compat, index, owner, written, stray, budget>>

\* A second close of a session is an error.
CloseSession(c) ==
    /\ Waits(c, "close") /\ ~Unserved("close")
    /\ live' = live \ {cursor[c].session}
    /\ IF cursor[c].session \in live THEN Advance(c) /\ UNCHANGED result
       ELSE Refused(c, MapBridgeError("not_found", "close"))
    /\ UNCHANGED <<compat, size, index, owner, written, stray, cursor, out, budget>>

-----------------------------------------------------------------------------
(* Searching.                                                              *)

StartSearch(c) ==
    /\ Waits(c, "search") /\ ~Unserved("search")
    /\ searching' = searching \cup {c}
    /\ at' = [at EXCEPT ![c] = @ + 1]
    /\ UNCHANGED <<compat, size, live, index, owner, written, stray, op, hung, told, budget>>

\* A match or a progress report.  Each one has a deadline of its own, and
\* nothing counts or times them together.
SearchEvent(c) ==
    /\ Waits(c, "stream") /\ c \in searching
    /\ events' = ~events
    /\ UNCHANGED <<gateway, progress, told, requests>>

SearchCompleted(c) ==
    /\ Waits(c, "stream") /\ c \in searching
    /\ Finish(c, "ok")
    /\ UNCHANGED <<compat, size, live, index, owner, written, stray, cursor, out, result, budget>>

-----------------------------------------------------------------------------
(* The namespace index.                                                    *)

\* What the gateway lets an operation do, Nil where its state forbids it.
IndexAfter(call) ==
    CASE call = "index_refresh" -> {IF index = "paused" THEN "paused" ELSE "building"}
      [] call = "index_auto" -> IF index = "absent" THEN {Nil} ELSE {index}
      [] call = "index_delete" -> IF index = "building" THEN {Nil} ELSE {"absent"}
      [] OTHER -> CASE index = "building" -> {"paused", "absent"}
                    [] index = "paused" -> {"building", "absent"}
                    [] OTHER -> {Nil}

IndexCall(c) ==
    /\ \E call \in IndexOps \ {"index_status", "index_search"} :
          /\ Waits(c, call) /\ ~Unserved(call)
          /\ \E after \in IndexAfter(call) :
                IF after = Nil
                THEN Refused(c, MapBridgeError("precondition", call)) /\ UNCHANGED index
                ELSE index' = after /\ Advance(c) /\ UNCHANGED result
    /\ UNCHANGED <<compat, size, live, owner, written, stray, cursor, out, budget>>

-----------------------------------------------------------------------------
(* `opc write`.                                                            *)

\* LiveOperationGuard::acquire: the tag is claimed, or the lock is busy, the
\* tag owned by somebody else or the claim not persisted.
AcquireTag(c) ==
    /\ Waits(c, "acquire")
    /\ \/ owner = Nil /\ owner' = c /\ Advance(c)
       \/ UNCHANGED owner /\ Finish(c, "not_acquired")
    /\ UNCHANGED <<compat, size, live, index, written, stray, cursor, out, result, budget>>

\* The gateway accepts or rejects the value; either is an answer.
WriteTag(c) ==
    /\ Waits(c, "write") /\ ~Unserved("write")
    /\ \/ written' = c /\ result' = [result EXCEPT ![c] = "accepted"]
       \/ UNCHANGED written /\ result' = [result EXCEPT ![c] = "rejected"]
    /\ Advance(c)
    /\ UNCHANGED <<compat, size, live, index, owner, stray, cursor, out, budget>>

\* combine_write_and_release
CombineWriteAndRelease(r, released) ==
    CASE r = "accepted" /\ released -> "written"
      [] r = "rejected" /\ released -> "rejected"
      [] r = "failed" /\ released -> "failed"
      [] r = "failed" /\ ~released -> "failed_unreleased"
      [] OTHER -> "unreleased"

ReleaseTag(c) ==
    /\ Waits(c, "release")
    /\ \E released \in BOOLEAN :
          /\ owner' = IF released THEN Nil ELSE owner
          /\ Finish(c, CombineWriteAndRelease(result[c], released))
    /\ UNCHANGED <<compat, size, live, index, written, stray, cursor, out, result, budget>>

\* The sweep of a starting process retires the owner a write left behind:
\* nobody runs it any more, its evidence is exported and its claim released.
OwnerSwept ==
    /\ owner # Nil /\ ~(op[owner] = "write" /\ at[owner] > 1)
    /\ owner' = Nil
    /\ UNCHANGED <<compat, size, live, searching, index, written, stray, progress, told, budget>>

-----------------------------------------------------------------------------
(* The gateway on its own.                                                 *)

\* A write whose caller has given up reaches the tag, whoever owns it now.
LateWriteLands ==
    /\ stray > 0 /\ stray' = stray - 1
    /\ written' = Late
    /\ UNCHANGED <<compat, size, live, searching, index, owner, progress, told, budget>>

SessionExpires(s) ==
    /\ s \in live
    /\ live' = live \ {s}
    /\ UNCHANGED <<compat, size, searching, index, owner, written, stray, progress, told, budget>>

IndexBuilt ==
    /\ index = "building" /\ index' = "ready"
    /\ UNCHANGED <<compat, size, live, searching, owner, written, stray, progress, told, budget>>

GatewayRestarts ==
    /\ live' = {} /\ searching' = {}
    /\ UNCHANGED <<compat, size, index, owner, written, stray, progress, told, budget>>

-----------------------------------------------------------------------------

GatewayInit ==
    /\ compat \in {"full", "incompatible"}
    /\ size \in {<<>>} \cup {<<n>> : n \in PageCounts}
    /\ live = DOMAIN size       \* opened by somebody before
    /\ searching = {} /\ index = "absent"
    /\ owner = Nil /\ written = Nil /\ stray = 0
    /\ op = [c \in User |-> "idle"]
    /\ at = [c \in User |-> 1]
    /\ hung = [c \in User |-> FALSE]
    /\ cursor = [c \in User |-> Root]
    /\ out = [c \in User |-> <<>>]
    /\ result = [c \in User |-> "none"]
    /\ said = [c \in User |-> "none"]
    /\ events = FALSE /\ requests = 0

\* What a request does or waits for once it has begun.
Proceed(c) ==
    \/ Asked(c) \/ Fails(c) \/ Hangs(c) \/ TimeOut(c)
    \/ OpenSession(c) \/ ContinueSession(c) \/ CloseSession(c)
    \/ StartSearch(c) \/ SearchEvent(c) \/ SearchCompleted(c)
    \/ IndexCall(c)
    \/ AcquireTag(c) \/ WriteTag(c) \/ ReleaseTag(c)

Idle == (\A c \in User : ~Busy(c)) /\ UNCHANGED gatewayVars

GatewayNext ==
    \/ \E c \in User :
          \/ \E o \in Ops(c) : Begin(c, o)
          \/ RefuseRequest(c) \/ Proceed(c) \/ Disconnect(c) \/ Interrupt(c)
    \/ \E s \in DOMAIN size : SessionExpires(s)
    \/ IndexBuilt \/ GatewayRestarts \/ LateWriteLands \/ OwnerSwept
    \/ Idle

GatewaySpec == GatewayInit /\ [][GatewayNext]_gatewayVars

\* The server's runtime drives its handlers and their timers.
GatewayFairSpec == GatewaySpec /\ \A c \in Http : WF_gatewayVars(Proceed(c))

-----------------------------------------------------------------------------
(* Properties.                                                             *)

Consecutive(pages, s, first) ==
    pages = [i \in 1 .. (size[s] - first + 1) |-> [session |-> s, page |-> first + i - 1]]

\* A successful answer is true of the gateway, whatever expired, was closed
\* by somebody else or restarted between two calls of the request.  `opc
\* browse --all` that succeeds printed every page from the first one asked
\* for to the last, of one session and in order.  `opc write` that was
\* accepted finds its own value in the tag for as long as it owns it, or that
\* of a write that was given up and landed late: never that of a write the
\* ownership should have kept out.  An empty answer in place of the data comes
\* from an incompatible gateway only.
AnswersAreTrue ==
    \A c \in User :
        /\ said[c] = "listed" => Consecutive(out[c], out[c][1].session, out[c][1].page)
        /\ (owner = c /\ result[c] = "accepted") => written \in {c, Late}
        /\ said[c] = "degraded" => compat = "incompatible"

\* Every request of the server ends, answered or abandoned, although the
\* gateway may leave any of its calls unanswered, and leaves no search
\* running in the gateway; only a search whose events never stop goes on.
RequestsEnd ==
    \A c \in Http :
        \/ Busy(c) ~> (~Busy(c) /\ c \notin searching)
        \/ []<><<SearchEvent(c)>>_gatewayVars

\* Refuted, see the README.  Stated by the module of the routes
\* (routes/opc/mod.rs): every operation is bounded by a timeout, a search too.
SearchesEnd ==
    \A c \in Http : op[c] = "search" ~> op[c] # "search"
=============================================================================

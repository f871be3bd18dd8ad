------------------------------ MODULE Bindings ------------------------------
(***************************************************************************)
(* What an instance serves: the app it is bound to and its routes.  A      *)
(* request of the service API (Manager.bind, unbind, add_route and         *)
(* delete_route, rpaas/manager.py) writes the binding document in MongoDB  *)
(* (rpaas/storage.py) and the location and upstream keys in Consul, from   *)
(* which the machines write their nginx configuration                      *)
(* (rpaas/consul_manager.py).  Nothing locks the instance: a request       *)
(* decides on what it read when it began, every later call is one step,    *)
(* and it may die between two of them.                                     *)
(*                                                                         *)
(* One instance.  In this module it exists and is ready; RouterBackends    *)
(* adds the router API, whose upstream carries the name of the instance,   *)
(* and the removal of the instance.                                        *)
(***************************************************************************)
EXTENDS SequencesExt

CONSTANTS
    Paths, Root,    \* paths of locations, "/"
    Addresses,      \* destinations as a client spells them
    Default,        \* the address spelled "rpaas_default_upstream"
    AppHosts,       \* addresses of apps
    Destinations,   \* addresses of routes
    Contents,       \* custom location texts
    Requests,       \* API request handlers that may run at once
    Nothing,        \* None
    MaxFaults,      \* bound: requests that raise or die between two calls
    MaxOverlaps     \* bound: requests that begin while another is under way

(* An address is a host with an optional scheme and an optional port; the  *)
(* name of an upstream and a server in it are addresses, too.              *)
HostOf(a) == [scheme |-> "", host |-> a.host, port |-> 0]
ServerOf(a) == [scheme |-> "", host |-> a.host, port |-> a.port]

ASSUME ConstantsAssumption ==
    /\ Root \in Paths
    /\ AppHosts \cup Destinations \subseteq Addresses
    /\ \A a \in Addresses : {HostOf(a), ServerOf(a)} \subseteq Addresses
    /\ Default \in Addresses /\ Default = HostOf(Default)
    /\ \A a \in AppHosts \cup Destinations : HostOf(a) # Default
    /\ Nothing \notin Paths \cup Addresses \cup Contents
    /\ MaxFaults \in Nat /\ MaxOverlaps \in Nat

VARIABLES
    app,        \* app_host in the binding document
    entries,    \* entries[p]: paths in the binding document with path p, oldest first
    location,   \* location[p]: value of the location key of p
    upstream,   \* upstream[a]: servers in the upstream key named a
    req,        \* req[r]: the calls request r has still to make
    faults, overlaps,   \* how much of each bound is spent
    torn,       \* history: paths whose last write failed or overlapped another
    outspelled  \* history: upstreams last saved without a server while a location
                \* of another path proxied there that spells their host otherwise

vars == <<app, entries, location, upstream, req, faults, overlaps, torn, outspelled>>
docVars == <<app, entries>>
consulVars == <<location, upstream, outspelled>>
-----------------------------------------------------------------------------
(* An entry of the document: "custom" for one of add_route, which has a    *)
(* content key, even if its value is None.                                 *)
Entry == [to : Addresses \cup Contents, custom : BOOLEAN]

(* A location key that proxies to an upstream, or holds a text. *)
Location ==
    [kind : {"none", "not_bound", "content", "proxy"},
     to : Addresses \cup Contents \cup {Nothing}, upstream : Addresses \cup {Nothing}]

Plain(kind) == [kind |-> kind, to |-> Nothing, upstream |-> Nothing]
Content(c) == [kind |-> "content", to |-> c, upstream |-> Nothing]
Proxy(a, u) == [kind |-> "proxy", to |-> a, upstream |-> u]

(* The calls of a request. *)
Pull(p, strict) == [call |-> "pull", path |-> p, strict |-> strict]
Push(p, e) == [call |-> "push", path |-> p, entry |-> e]
StoreBinding(a) == [call |-> "store_binding", app |-> a]
SetApp(a) == [call |-> "set_app", app |-> a]
List(change, u, servers) ==
    [call |-> "list", change |-> change, upstream |-> u, servers |-> servers]
Save(u, servers) == [call |-> "save", upstream |-> u, servers |-> servers]
Put(p, loc) == [call |-> "put", path |-> p, location |-> loc]
Delete(p) == [call |-> "delete", path |-> p]
Plainly(name) == [call |-> name]    \* a call without parameters

Calls ==
    [call : {"pull"}, path : Paths, strict : BOOLEAN]
        \cup [call : {"push"}, path : Paths, entry : Entry]
        \cup [call : {"store_binding", "set_app"}, app : AppHosts \cup {Nothing}]
        \cup [call : {"list"}, change : {"add", "remove"}, upstream : Addresses,
              servers : SUBSET Addresses]
        \cup [call : {"save"}, upstream : Addresses, servers : SUBSET Addresses]
        \cup [call : {"put"}, path : Paths, location : Location]
        \cup [call : {"delete"}, path : Paths]
        \cup [call : {"parse_none", "ready", "list_routes", "find_binding"}]

(* "path" is the path the request is about, and "whole" says that it writes *)
(* everything that is kept of it.  The request is "clean" as long as no     *)
(* other work on that path was under way and no call failed.                *)
IdleReq == [path |-> Nothing, whole |-> FALSE, clean |-> TRUE, todo |-> <<>>]

TypeOK ==
    /\ app \in AppHosts \cup {Nothing}
    /\ entries \in [Paths -> Seq(Entry)]
    /\ location \in [Paths -> Location]
    /\ upstream \in [Addresses -> SUBSET Addresses]
    /\ req \in [Requests -> [path : Paths \cup {Nothing}, whole : BOOLEAN,
                             clean : BOOLEAN, todo : Seq(Calls)]]
    /\ faults \in Nat /\ overlaps \in Nat /\ torn \in SUBSET Paths
    /\ outspelled \in SUBSET Addresses

Init ==
    /\ app = Nothing
    /\ entries = [p \in Paths |-> <<>>]
    /\ location = [p \in Paths |-> Plain("none")]
    /\ upstream = [a \in Addresses |-> {}]
    /\ req = [r \in Requests |-> IdleReq]
    /\ faults = 0 /\ overlaps = 0 /\ torn = {} /\ outspelled = {}
-----------------------------------------------------------------------------
(***************************************************************************)
(* Requests.  The first read decides which calls follow; a request that it *)
(* refuses, or that has nothing to do, changes nothing and is not modelled. *)
(***************************************************************************)

Busy(r) == req[r].todo # <<>>

(* "alone": nothing but requests of this module works on the path. *)
BeginAmong(alone, r, path, whole, calls) ==
    LET rivals == {q \in Requests : Busy(q) /\ req[q].path = path}
        undisturbed == alone /\ rivals = {}
    IN  /\ ~Busy(r)
        /\ req' = [q \in Requests |->
                      IF q = r THEN [path |-> path, whole |-> whole,
                                     clean |-> undisturbed, todo |-> calls]
                      ELSE [req[q] EXCEPT !.clean = @ /\ q \notin rivals]]
        /\ torn' = IF undisturbed THEN torn ELSE torn \cup {path}
        /\ IF undisturbed /\ \A q \in Requests : ~Busy(q)
           THEN UNCHANGED overlaps
           ELSE overlaps < MaxOverlaps /\ overlaps' = overlaps + 1
        /\ UNCHANGED <<docVars, consulVars, faults>>

Begin(r, path, whole, calls) == BeginAmong(TRUE, r, path, whole, calls)

CustomRoot == \E e \in ToSet(entries[Root]) : e.custom

(* write_location of a destination: its host joins the upstream, without   *)
(* the port, before the location that proxies to it is written.            *)
WriteProxy(p, a, u) == <<List("add", u, {HostOf(a)}), Put(p, Proxy(a, u))>>

(* bind: a second app is refused, the same app is nothing to do; a custom  *)
(* root location stays.  store_binding ignores that there is no root path. *)
Bind(r, a) ==
    /\ app = Nothing
    /\ IF CustomRoot
       THEN Begin(r, Root, FALSE, <<SetApp(a)>>)
       ELSE Begin(r, Root, TRUE, WriteProxy(Root, a, Default)
                                     \o <<Pull(Root, FALSE), StoreBinding(a)>>)

(* unbind: remove_root_binding raises if there is no root path, and the    *)
(* last call if the document named no app.  An instance with no document   *)
(* has nothing to do and answers; the model, which does not tell it from   *)
(* one with an empty document, lets it raise: neither writes anything.     *)
TakeAppOut == IF app = Nothing THEN Plainly("parse_none")
              ELSE List("remove", Default, {ServerOf(app)})
UnbindCalls_ServerFirst ==
    <<Pull(Root, TRUE), SetApp(Nothing), TakeAppOut, Put(Root, Plain("not_bound"))>>
UnbindCalls ==
    <<Pull(Root, TRUE), SetApp(Nothing), Put(Root, Plain("not_bound")), TakeAppOut>>

Unbind(r) ==
    IF CustomRoot
    THEN Begin(r, Root, FALSE, <<SetApp(Nothing)>>)
    ELSE Begin(r, Root, TRUE, UnbindCalls)

AddRoute(r, p, to) ==
    LET write == IF to \in Contents THEN <<Put(p, Content(to))>>
                                    ELSE WriteProxy(p, to, HostOf(to))
    IN  Begin(r, p, TRUE, <<Pull(p, FALSE), Push(p, [to |-> to, custom |-> TRUE])>>
                              \o write)

(* delete_route counts the entries that spell the destination the same way *)
(* and takes the last server out of an upstream it names the way the       *)
(* destination is spelled.                                                 *)
LastReference_Always(a) == TRUE
LastReference(a) ==
    Cardinality(UNION {{p} \X {i \in DOMAIN entries[p] : entries[p][i].to = a} :
                       p \in Paths}) = 1

DeleteRoute(r, p) ==
    LET to == Last(entries[p]).to
        release == IF to \notin Contents /\ LastReference(to)
                   THEN <<List("remove", to, {ServerOf(to)})>> ELSE <<>>
    IN  /\ p # Root
        /\ entries[p] # <<>>
        /\ Begin(r, p, TRUE, release \o <<Pull(p, TRUE), Delete(p)>>)
-----------------------------------------------------------------------------
(* The calls *)

Pending(r) == Head(req[r].todo)
Calling(r, name) == Busy(r) /\ Pending(r).call = name

(* The call returns, "more" takes its place.  The last call of a request   *)
(* that wrote all of its path and is still clean mends it.                 *)
Return(r, more) ==
    LET rest == more \o Tail(req[r].todo)
        done == rest = <<>>
    IN  /\ req' = [req EXCEPT ![r] = IF done THEN IdleReq ELSE [@ EXCEPT !.todo = rest]]
        /\ torn' = IF done /\ req[r].whole /\ req[r].clean
                   THEN torn \ {req[r].path} ELSE torn
        /\ UNCHANGED <<faults, overlaps>>

(* The request ends with an exception. *)
Raise(r) ==
    /\ req' = [req EXCEPT ![r] = IdleReq]
    /\ torn' = torn \cup {req[r].path}
    /\ UNCHANGED <<docVars, consulVars, overlaps>>

(* delete_binding_path: $pull takes out every entry of the path. *)
Pulled_Newest(p) == [entries EXCEPT ![p] = IF @ = <<>> THEN @ ELSE Front(@)]
Pulled_Gone(p) == [q \in Paths \ {p} |-> entries[q]]
Pulled(p) == [entries EXCEPT ![p] = <<>>]

DeleteBindingPath(r) ==
    LET p == Pending(r).path
    IN  /\ Calling(r, "pull")
        /\ IF entries[p] = <<>> /\ Pending(r).strict
           THEN Raise(r) /\ UNCHANGED faults
           ELSE /\ entries' = Pulled(p)
                /\ Return(r, <<>>)
                /\ UNCHANGED <<app, consulVars>>

PushPath(r) ==
    /\ Calling(r, "push")
    /\ entries' = [entries EXCEPT ![Pending(r).path] = Append(@, Pending(r).entry)]
    /\ Return(r, <<>>)
    /\ UNCHANGED <<app, consulVars>>

(* One update sets the app and pushes its root path. *)
StoreApp(r) ==
    /\ Calling(r, "store_binding")
    /\ app' = Pending(r).app
    /\ entries' = [entries EXCEPT ![Root] =
                       Append(@, [to |-> Pending(r).app, custom |-> FALSE])]
    /\ Return(r, <<>>)
    /\ UNCHANGED consulVars

SetAppHost(r) ==
    /\ Calling(r, "set_app")
    /\ app' = Pending(r).app
    /\ Return(r, <<>>)
    /\ UNCHANGED <<entries, consulVars>>

(* list_upstream: what add_server_upstream and remove_server_upstream save *)
(* is computed from the servers they read.                                 *)
ListUpstream(r) ==
    LET c == Pending(r)
        servers == IF c.change = "add" THEN upstream[c.upstream] \cup c.servers
                                       ELSE upstream[c.upstream] \ c.servers
    IN  /\ Calling(r, "list")
        /\ Return(r, <<Save(c.upstream, servers)>>)
        /\ UNCHANGED <<docVars, consulVars>>

(* A location of another path than p proxies to u, whose own destination   *)
(* is spelled otherwise than u is named: a scheme or a port.               *)
SpeltOtherwise(p, u) ==
    \E q \in Paths \ {p} : location[q].kind = "proxy" /\ location[q].upstream = u
                             /\ location[q].to # u

SaveUpstream(r) ==
    LET c == Pending(r)
    IN  /\ Calling(r, "save")
        /\ upstream' = [upstream EXCEPT ![c.upstream] = c.servers]
        /\ outspelled' = IF c.servers = {} /\ SpeltOtherwise(req[r].path, c.upstream)
                         THEN outspelled \cup {c.upstream} ELSE outspelled \ {c.upstream}
        /\ Return(r, <<>>)
        /\ UNCHANGED <<docVars, location>>

PutLocation(r) ==
    /\ Calling(r, "put")
    /\ location' = [location EXCEPT ![Pending(r).path] = Pending(r).location]
    /\ Return(r, <<>>)
    /\ UNCHANGED <<docVars, upstream, outspelled>>

RemoveLocation(r) ==
    /\ Calling(r, "delete")
    /\ location' = [location EXCEPT ![Pending(r).path] = Plain("none")]
    /\ Return(r, <<>>)
    /\ UNCHANGED <<docVars, upstream, outspelled>>

(* host_from_destination has no None. *)
ParseNone(r) == Calling(r, "parse_none") /\ Raise(r) /\ UNCHANGED faults

(* MongoDB or Consul fail a call, or the API process dies. *)
RequestFails(r) ==
    /\ Busy(r)
    /\ faults < MaxFaults
    /\ faults' = faults + 1
    /\ Raise(r)

(* The bare except around delete_binding_path swallows its failure, too. *)
SwallowedFailure(r) ==
    /\ Calling(r, "pull") /\ ~Pending(r).strict
    /\ faults < MaxFaults
    /\ faults' = faults + 1
    /\ req' = [req EXCEPT ![r].todo = Tail(@), ![r].clean = FALSE]
    /\ torn' = torn \cup {req[r].path}
    /\ UNCHANGED <<docVars, consulVars, overlaps>>

RequestStep(r) ==
    \/ DeleteBindingPath(r) \/ PushPath(r) \/ StoreApp(r) \/ SetAppHost(r)
    \/ ListUpstream(r) \/ SaveUpstream(r) \/ PutLocation(r) \/ RemoveLocation(r)
    \/ ParseNone(r)

Next ==
    \E r \in Requests :
        \/ \E a \in AppHosts : Bind(r, a)
        \/ Unbind(r)
        \/ \E p \in Paths : \/ \E to \in Destinations \cup Contents : AddRoute(r, p, to)
                            \/ DeleteRoute(r, p)
        \/ RequestStep(r) \/ RequestFails(r) \/ SwallowedFailure(r)

Spec == Init /\ [][Next]_vars
-----------------------------------------------------------------------------
(* Properties *)

Deleting(p) == \E r \in Requests : Contains(req[r].todo, Delete(p))

(* What location key an entry of the document stands for. *)
Meant(e) ==
    CASE ~e.custom -> Proxy(e.to, Default)
      [] e.custom /\ e.to \in Contents -> Content(e.to)
      [] OTHER -> Proxy(e.to, HostOf(e.to))

(* When no request is under way, the document says of every path what the  *)
(* machines serve there, and the app the instance is bound to is the one   *)
(* behind its root.  A path whose last write failed halfway or overlapped  *)
(* another is exempt until a request for it runs alone and without failure *)
(* to its end: whatever happened before, that mends it.                    *)
RoutesAgree ==
    (\A r \in Requests : ~Busy(r)) =>
        \A p \in Paths \ torn :
            /\ Len(entries[p]) <= 1
            /\ IF entries[p] = <<>>
               THEN /\ location[p].kind \in {"none", "not_bound"}
                    /\ p = Root => app = Nothing
               ELSE /\ location[p] = Meant(Head(entries[p]))
                    /\ p = Root /\ ~CustomRoot => app = Head(entries[p]).to

(* No machine is ever told to proxy to an upstream without a server, which *)
(* nginx refuses to load: the server goes in before the location and out   *)
(* after it.  delete_route takes it out before the location it deletes.    *)
(* Requests one at a time, any of which may die.  delete_route keeps the   *)
(* server for the routes that spell the host as it does, whatever other    *)
(* spellings the routes have                                               *)
(* (test_delete_route_only_remove_upstream_on_last_reference): exempt are  *)
(* only those that spell it otherwise, once a delete_route has taken out   *)
(* the server they share and until a write puts it back.                   *)
ProxyHasServer ==
    overlaps = 0 =>
        \A p \in Paths \ torn :
            location[p].kind = "proxy" /\ ~Deleting(p) =>
                \/ upstream[location[p].upstream] # {}
                \/ /\ location[p].upstream \in outspelled
                   /\ location[p].to # location[p].upstream

(* "This service can only be bound to one application." (manager.py): the  *)
(* upstream of the root location holds one app, the one the location names. *)
(* Requests one at a time, none of which dies; apps without a port.        *)
BoundToOneApp ==
    overlaps = 0 /\ faults = 0 =>
        /\ Cardinality(upstream[Default]) <= 1
        /\ location[Root].kind = "proxy" /\ location[Root].upstream = Default =>
               upstream[Default] = {HostOf(location[Root].to)}
=============================================================================

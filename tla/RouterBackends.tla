--------------------------- MODULE RouterBackends ---------------------------
(***************************************************************************)
(* The router API (rpaas/router_api.py): an instance as a backend of the   *)
(* tsuru router.  Adding routes binds the backend to its own name and adds *)
(* their servers to the upstream of that name; taking out the last server  *)
(* unbinds it.  Bindings has the calls, Swap the swaps and the removal of  *)
(* instances, the backend among them: this module composes the two, as     *)
(* they share the documents and the Consul keys of the backend.  MaxJobs   *)
(* bounds the requests for routes, too, and only one kind of work fails.   *)
(***************************************************************************)
EXTENDS Bindings, Swap

CONSTANTS
    Upstream,   \* the address spelled as the name of the backend
    MaxAtOnce   \* bound: requests and jobs under way at once

Backend == Upstream.host

ASSUME RouterAssumption ==
    /\ Upstream \in AppHosts /\ Upstream = HostOf(Upstream)
    /\ Backend \in Instances
    /\ MaxAtOnce \in Nat

backendVars == <<vars, swapVars>>

RouterTypeOK == TypeOK /\ SwapTypeOK
RouterInit == Init /\ SwapInit
-----------------------------------------------------------------------------
(* Requests for routes *)

Found == Backend \in live \ task    \* ensure_ready, LoadBalancer.find

Removals == {j \in WorkOn(Backend) : job[j].dst = None}

Room == Cardinality({r \in Requests : Busy(r)}) + Cardinality({j \in Jobs : Working(j)})
            < MaxAtOnce

BeginRoutes(r, whole, calls) ==
    /\ Room /\ Found
    /\ jobs < MaxJobs /\ jobs' = jobs + 1
    /\ BeginAmong(Removals = {}, r, Root, whole, calls)
    /\ UNCHANGED <<live, task, partner, job, deaths, mixed>>

(* bind in router mode: the location proxies to an upstream that gets no   *)
(* server yet.                                                             *)
BindBackend_ToDefault ==
    <<Put(Root, Proxy(Upstream, Default)), Pull(Root, FALSE), StoreBinding(Default)>>
BindBackend_PulledLast ==
    <<Put(Root, Proxy(Upstream, Upstream)), StoreBinding(Upstream), Pull(Root, FALSE)>>
BindBackend_DocumentOnly == <<Pull(Root, FALSE), StoreBinding(Upstream)>>
BindBackend ==
    <<Put(Root, Proxy(Upstream, Upstream)), Pull(Root, FALSE), StoreBinding(Upstream)>>

(* add_routes: nothing to bind if the document names the backend already.  *)
AddRoutes(r, servers) ==
    LET bind == IF app = Upstream THEN <<>> ELSE BindBackend
    IN  BeginRoutes(r, app # Upstream, bind \o
            <<Plainly("ready"), List("add", Upstream, {ServerOf(s) : s \in servers})>>)

DeleteRoutes(r, servers) ==
    BeginRoutes(r, FALSE, <<List("remove", Upstream, {ServerOf(s) : s \in servers}),
                            Plainly("ready"), Plainly("list_routes")>>)

(* Each call of the manager begins with ensure_ready and find. *)
Ready(r) ==
    /\ Calling(r, "ready")
    /\ IF Found THEN Return(r, <<>>) /\ UNCHANGED <<docVars, consulVars>>
                ELSE Raise(r) /\ UNCHANGED faults

(* delete_routes unbinds a backend whose upstream it finds empty. *)
ListRoutes(r) ==
    /\ Calling(r, "list_routes")
    /\ Return(r, IF upstream[Upstream] = {}
                 THEN <<Plainly("ready"), Plainly("find_binding")>> ELSE <<>>)
    /\ UNCHANGED <<docVars, consulVars>>

(* unbind of a backend that has no root path answers 404. *)
FindBinding(r) ==
    /\ Calling(r, "find_binding")
    /\ IF app = Nothing /\ entries[Root] = <<>>
       THEN Return(r, <<>>)
       ELSE /\ req' = [req EXCEPT ![r].whole = TRUE, ![r].todo = UnbindCalls]
            /\ UNCHANGED <<faults, overlaps, torn>>
    /\ UNCHANGED <<docVars, consulVars>>

RoutesStep(r) ==
    /\ UNCHANGED swapVars
    /\ \/ RequestStep(r) \/ Ready(r) \/ ListRoutes(r) \/ FindBinding(r)
       \/ deaths = 0 /\ (RequestFails(r) \/ SwallowedFailure(r))
-----------------------------------------------------------------------------
(* Swaps and removals, seen from the backend *)

(* A removal of the backend writes all that is kept of it, so it mends the *)
(* routes unless it overlaps a request for them or another removal, or     *)
(* ends early.  The properties do not speak of the time it takes.          *)
BeginBackendRemoval(j) ==
    LET alone == Removals = {} /\ \A r \in Requests : ~Busy(r)
    IN  /\ Room /\ BeginRemoval(j, Backend)
        /\ req' = [r \in Requests |-> [req[r] EXCEPT !.clean = @ /\ ~Busy(r)]]
        /\ torn' = IF alone THEN torn \ {Root} ELSE torn \cup {Root}
        /\ UNCHANGED <<docVars, consulVars, faults, overlaps>>

Dies(j) == faults = 0 /\ JobDies(j)

BackendRemovalStep(j) ==
    /\ j \in Removals
    /\ CreateTaskDoc(j) \/ RemoveTaskDoc(j) \/ DestroyLB(j) \/ Dies(j)
    /\ torn' = IF ~Working(j)' /\ live' = live THEN torn \cup {Root} ELSE torn
    /\ UNCHANGED <<docVars, consulVars, req, faults, overlaps>>

RemoveBackendBinding(j) ==
    /\ j \in Removals
    /\ RemoveBinding(j)
    /\ app' = Nothing
    /\ entries' = [p \in Paths |-> <<>>]
    /\ UNCHANGED <<consulVars, req, faults, overlaps, torn>>

DestroyBackendTree(j) ==
    /\ j \in Removals
    /\ DestroyTree(j)
    /\ IF Backend \in live
       THEN /\ location' = [p \in Paths |-> Plain("none")]
            /\ upstream' = [a \in Addresses |-> {}]
            /\ outspelled' = {}
            /\ UNCHANGED torn
       ELSE torn' = torn \cup {Root} /\ UNCHANGED consulVars
    /\ UNCHANGED <<docVars, req, faults, overlaps>>

OtherJob(j) ==
    /\ UNCHANGED vars
    /\ \/ /\ Room
          /\ \/ \E a, b \in Instances : BeginSwap(j, a, b)
             \/ \E i \in Instances \ {Backend} : BeginRemoval(j, i)
       \/ /\ j \notin Removals
          /\ JobStep(j) \/ RemoveBinding(j) \/ DestroyTree(j) \/ DestroyLB(j) \/ Dies(j)

RouterNext ==
    \/ \E r \in Requests :
          \/ \E servers \in (SUBSET Destinations) \ {{}} :
                AddRoutes(r, servers) \/ DeleteRoutes(r, servers)
          \/ RoutesStep(r)
    \/ \E j \in Jobs :
          \/ BeginBackendRemoval(j) \/ BackendRemovalStep(j)
          \/ RemoveBackendBinding(j) \/ DestroyBackendTree(j)
          \/ OtherJob(j)
    \/ \E i \in Instances : CreateInstance(i) /\ UNCHANGED vars

RouterSpec == RouterInit /\ [][RouterNext]_backendVars
-----------------------------------------------------------------------------
(* Properties *)

AtRest == Removals = {} /\ \A r \in Requests : ~Busy(r)

(* Between requests a backend either has servers, is bound to its own name *)
(* and proxies to them, or has none, is unbound and proxies nowhere; a     *)
(* backend that was removed has left nothing for the next one of its name. *)
(* Unless the last work on it overlapped other work on it or failed.       *)
BackendAgrees ==
    AtRest /\ Root \notin torn =>
        LET servers == upstream[Upstream]
        IN  /\ app = IF servers = {} THEN Nothing ELSE Upstream
            /\ Len(entries[Root]) = IF servers = {} THEN 0 ELSE 1
            /\ IF servers = {} THEN location[Root].kind \in {"none", "not_bound"}
               ELSE location[Root] = Proxy(Upstream, Upstream)
            /\ Backend \notin live => servers = {} /\ location[Root].kind = "none"

(* A bound backend can be unbound: unbind answers 404 for ever once the    *)
(* document names an app but has no root path.  However many requests and  *)
(* removals overlap, as long as none of them fails between two calls.      *)
UnbindStaysPossible ==
    AtRest /\ faults = 0 => (app # Nothing => entries[Root] # <<>>)
=============================================================================

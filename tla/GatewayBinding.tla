--------------------------- MODULE GatewayBinding ---------------------------
(***************************************************************************)
(* What the MCPServer controller and a gateway integration controller owe  *)
(* each other over one MCPGatewayBinding.  The MCPServer controller        *)
(* creates, edits and deletes it; the integration controller only reports: *)
(* the Registered condition, stamped with the generation it holds for, and *)
(* the URL that goes with it.                                              *)
(***************************************************************************)
EXTENDS Integers

CONSTANTS Urls, NoUrl

VARIABLES
    uid,        \* the incarnation of the binding, 0 when it is absent
    gen,        \* metadata.generation
    registered, \* observedGeneration of Registered=True, 0 when it is not True
    url         \* status.url

bindingVars == <<uid, gen, registered, url>>

Absent == uid = 0 /\ gen = 0 /\ registered = 0 /\ url = NoUrl

Start == Absent \/ (uid = 1 /\ gen = 1 /\ registered = 0 /\ url = NoUrl)

\* A new incarnation starts without a status: nothing that was reported about
\* an earlier one carries over.
Create ==
    /\ uid' > uid
    /\ gen' = 1 /\ registered' = 0 /\ url' = NoUrl

Edit ==
    /\ uid # 0
    /\ gen' = gen + 1
    /\ UNCHANGED <<uid, registered, url>>

Delete == uid # 0 /\ uid' = 0 /\ gen' = 0 /\ registered' = 0 /\ url' = NoUrl

\* A report is about the generation the binding has when it is written, and a
\* registered binding has an address.
Register ==
    /\ uid # 0
    /\ registered' = gen
    /\ url' \in Urls
    /\ UNCHANGED <<uid, gen>>

Unregister ==
    /\ uid # 0
    /\ registered' = 0 /\ url' = NoUrl
    /\ UNCHANGED <<uid, gen>>

Step == Create \/ Edit \/ Delete \/ Register \/ Unregister

Contract == Start /\ [][Step]_bindingVars
=============================================================================

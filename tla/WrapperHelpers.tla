---------------------------- MODULE WrapperHelpers ----------------------------
(***************************************************************************)
(* The helpers of IGCLWrapper/IGCLWrapper.i that do more than forward a    *)
(* call: IGCL_EnumDisplays and IGCL_GetPanelDescriptor ask the runtime      *)
(* twice and allocate between the two calls, IGCL_FreeBuffer releases what  *)
(* they allocated.  Displays come and go between any two calls.            *)
(*                                                                         *)
(* A caller uses a result and frees its block before it calls again.  It   *)
(* clears a descriptor pointer it has freed; IGCL_EnumDisplays clears the  *)
(* display pointer itself.                                                 *)
(*                                                                         *)
(* A definition that stands just above another one with the same           *)
(* parameters is a faulty variant of it, used nowhere in the model: it     *)
(* shows which property notices that fault.                                *)
(***************************************************************************)
EXTENDS Naturals, FiniteSets, FiniteSetsExt

CONSTANTS
    Callers,    \* the threads that call the helpers
    Displays,   \* the displays an adapter can have
    Blocks,     \* the blocks of the C heap
    Null,       \* a null pointer
    Descriptor  \* the bytes of a panel descriptor

ASSUME HelpersAssumption ==
    /\ Null \notin Blocks
    /\ Descriptor \notin Displays
    /\ IsFiniteSet(Displays)

VARIABLES
    connected,        \* the displays the adapter has now
    size,             \* size[b]: the entries block b holds, 0 when it is free
    content,          \* content[b]: what the runtime has written to block b
    pc,               \* pc[c]: the next step of caller c
    pCount,           \* the caller's count, whatever an earlier call left in it
    ppDisplays,       \* the caller's pointer to display handles
    DescriptorDataSize, pDescriptorData,  \* fields of the caller's pArgs
    pBuffer,          \* the caller's pointer to descriptor bytes
    result,           \* the result of the caller's last runtime call
    fault             \* "none", or "double_free" once a free block was freed

heap     == <<size, content>>
enumVars == <<pCount, ppDisplays>>
descVars == <<DescriptorDataSize, pDescriptorData, pBuffer>>
vars == <<connected, heap, pc, enumVars, descVars, result, fault>>

MaxCount == Cardinality(Displays)
Live(b) == b \in Blocks /\ size[b] > 0

TypeOK ==
    /\ connected \subseteq Displays
    /\ size \in [Blocks -> Nat]
    /\ content \in [Blocks -> SUBSET (Displays \cup {Descriptor})]
    /\ pc \in [Callers -> {"idle", "enumCount", "enumAlloc", "enumFill", "displays",
                           "descQuery", "descAlloc", "descRead", "descriptor"}]
    /\ pCount \in [Callers -> 0..MaxCount]
    /\ ppDisplays \in [Callers -> Blocks \cup {Null}]
    /\ DescriptorDataSize \in [Callers -> 0..1]
    /\ pDescriptorData \in [Callers -> Blocks \cup {Null}]
    /\ pBuffer \in [Callers -> Blocks \cup {Null}]
    /\ result \in [Callers -> {"SUCCESS", "OUT_OF_HOST_MEMORY", "INVALID_NULL_POINTER",
                              "RUNTIME_ERROR"}]
    /\ \A c \in Callers : pc[c] = "enumFill" => Live(ppDisplays[c])
    /\ fault \in {"none", "double_free"}

Init ==
    /\ connected \in SUBSET Displays
    /\ size = [b \in Blocks |-> 0]
    /\ content = [b \in Blocks |-> {}]
    /\ pc = [c \in Callers |-> "idle"]
    /\ pCount = [c \in Callers |-> 0]
    /\ ppDisplays = [c \in Callers |-> Null]
    /\ DescriptorDataSize = [c \in Callers |-> 0]
    /\ pDescriptorData = [c \in Callers |-> Null]
    /\ pBuffer = [c \in Callers |-> Null]
    /\ result = [c \in Callers |-> "SUCCESS"]
    /\ fault = "none"

-------------------------------------------------------------------------------
At(c, step) == fault = "none" /\ pc[c] = step

Goto(c, step) == pc' = [pc EXCEPT ![c] = step] /\ UNCHANGED fault

Return(c, r) == result' = [result EXCEPT ![c] = r]

\* A null argument is refused before anything is touched.
RefuseNull(c) ==
    /\ Return(c, "INVALID_NULL_POINTER")
    /\ UNCHANGED <<connected, heap, pc, enumVars, descVars, fault>>

DoubleFree ==
    /\ fault' = "double_free"
    /\ UNCHANGED <<connected, heap, pc, enumVars, descVars, result>>

\* malloc: any block that is free.
Malloc(b, n) ==
    /\ size[b] = 0
    /\ size' = [size EXCEPT ![b] = n]
    /\ content' = [content EXCEPT ![b] = {}]

Free(b) ==
    /\ size' = [size EXCEPT ![b] = 0]
    /\ content' = [content EXCEPT ![b] = {}]

\* The user plugs displays in and pulls them out.
Hotplug ==
    /\ fault = "none"
    /\ \E d \in Displays :
           connected' = IF d \in connected THEN connected \ {d} ELSE connected \cup {d}
    /\ UNCHANGED <<heap, pc, enumVars, descVars, result, fault>>

-------------------------------------------------------------------------------
(* IGCL_EnumDisplays *)

KeepsPointer(c) == ppDisplays[c]
PointerAtStart(c) == Null

CallEnumDisplays(c) ==
    /\ At(c, "idle")
    /\ \/ RefuseNull(c)
       \/ /\ Goto(c, "enumCount")
          /\ ppDisplays' = [ppDisplays EXCEPT ![c] = PointerAtStart(c)]
          /\ UNCHANGED <<connected, heap, pCount, descVars, result>>

IgnoresEmpty(n) == "enumAlloc"
AfterCount(n) == IF n = 0 THEN "displays" ELSE "enumAlloc"

\* ctlEnumerateDisplayOutputs without an array counts the displays; a count that
\* was not zero may also limit the answer.
EnumCount(c) ==
    /\ At(c, "enumCount")
    /\ \/ /\ \E n \in {Cardinality(connected), Min({pCount[c], Cardinality(connected)})} :
                /\ pCount[c] = 0 => n = Cardinality(connected)
                /\ pCount' = [pCount EXCEPT ![c] = n]
                /\ Goto(c, AfterCount(n))
          /\ Return(c, "SUCCESS")
       \/ /\ Goto(c, "displays")
          /\ Return(c, "RUNTIME_ERROR")
          /\ UNCHANGED pCount
    /\ UNCHANGED <<connected, heap, ppDisplays, descVars>>

EnumAlloc(c) ==
    /\ At(c, "enumAlloc")
    /\ \/ \E b \in Blocks :
             /\ Malloc(b, pCount[c])
             /\ ppDisplays' = [ppDisplays EXCEPT ![c] = b]
             /\ Goto(c, "enumFill")
             /\ UNCHANGED result
       \/ /\ Goto(c, "displays")
          /\ Return(c, "OUT_OF_HOST_MEMORY")
          /\ UNCHANGED <<heap, ppDisplays>>
    /\ UNCHANGED <<connected, pCount, descVars>>

KeepsFirstCount(c, n) == pCount[c]
CountAfterFill(c, n) == n

ForgetsOnFailure(c) == Null
PointerAfterFailure(c) == ppDisplays[c]

\* The second ctlEnumerateDisplayOutputs fills at most *pCount entries.
EnumFill(c) ==
    /\ At(c, "enumFill")
    /\ LET n == Min({pCount[c], Cardinality(connected)})
       IN  \/ /\ \E ds \in kSubset(n, connected) :
                    content' = [content EXCEPT ![ppDisplays[c]] = ds]
              /\ pCount' = [pCount EXCEPT ![c] = CountAfterFill(c, n)]
              /\ Return(c, "SUCCESS")
              /\ UNCHANGED ppDisplays
           \/ /\ Return(c, "RUNTIME_ERROR")
              /\ ppDisplays' = [ppDisplays EXCEPT ![c] = PointerAfterFailure(c)]
              /\ UNCHANGED <<content, pCount>>
    /\ Goto(c, "displays")
    /\ UNCHANGED <<connected, size, descVars>>

-------------------------------------------------------------------------------
(* IGCL_GetPanelDescriptor *)

CallGetPanelDescriptor(c) ==
    /\ At(c, "idle")
    /\ \/ RefuseNull(c)
       \/ /\ Goto(c, "descQuery")
          /\ DescriptorDataSize' = [DescriptorDataSize EXCEPT ![c] = 0]
          /\ pDescriptorData' = [pDescriptorData EXCEPT ![c] = Null]
          /\ UNCHANGED <<connected, heap, enumVars, pBuffer, result>>

DescQuery(c) ==
    /\ At(c, "descQuery")
    /\ \/ /\ \E n \in 0..1 :
                /\ DescriptorDataSize' = [DescriptorDataSize EXCEPT ![c] = n]
                /\ Goto(c, IF n = 0 THEN "descriptor" ELSE "descAlloc")
          /\ Return(c, "SUCCESS")
       \/ /\ Goto(c, "descriptor")
          /\ Return(c, "RUNTIME_ERROR")
          /\ UNCHANGED DescriptorDataSize
    /\ UNCHANGED <<connected, heap, enumVars, pDescriptorData, pBuffer>>

DescAlloc(c) ==
    /\ At(c, "descAlloc")
    /\ \/ \E b \in Blocks :
             /\ Malloc(b, DescriptorDataSize[c])
             /\ pBuffer' = [pBuffer EXCEPT ![c] = b]
             /\ Goto(c, "descRead")
             /\ UNCHANGED result
       \/ /\ pBuffer' = [pBuffer EXCEPT ![c] = Null]
          /\ Goto(c, "descriptor")
          /\ Return(c, "OUT_OF_HOST_MEMORY")
          /\ UNCHANGED heap
    /\ UNCHANGED <<connected, enumVars, DescriptorDataSize, pDescriptorData>>

\* The runtime writes where pArgs points; given a null pointer it may refuse or
\* do nothing.
DescRead(c) ==
    /\ At(c, "descRead")
    /\ \/ /\ Return(c, "SUCCESS")
          /\ content' = [b \in Blocks |->
                 IF b = pDescriptorData[c] THEN {Descriptor} ELSE content[b]]
       \/ /\ Return(c, "RUNTIME_ERROR")
          /\ UNCHANGED content
    /\ Goto(c, "descriptor")
    /\ UNCHANGED <<connected, size, enumVars, descVars>>

-------------------------------------------------------------------------------
(* IGCL_FreeBuffer, on what the last call returned. *)

FreeBuffer(ptr) ==
    IF ptr = Null THEN UNCHANGED heap ELSE Free(ptr)

FreeDisplays(c) ==
    /\ At(c, "displays")
    /\ IF ppDisplays[c] # Null /\ ~ Live(ppDisplays[c])
       THEN DoubleFree
       ELSE /\ FreeBuffer(ppDisplays[c])
            /\ Goto(c, "idle")
            /\ UNCHANGED <<connected, enumVars, descVars, result>>

FreeDescriptor(c) ==
    /\ At(c, "descriptor")
    /\ IF pBuffer[c] # Null /\ ~ Live(pBuffer[c])
       THEN DoubleFree
       ELSE /\ FreeBuffer(pBuffer[c])
            /\ pBuffer' = [pBuffer EXCEPT ![c] = Null]
            /\ Goto(c, "idle")
            /\ UNCHANGED <<connected, enumVars, DescriptorDataSize, pDescriptorData, result>>

-------------------------------------------------------------------------------
EnumStep(c) == CallEnumDisplays(c) \/ EnumCount(c) \/ EnumAlloc(c) \/ EnumFill(c)
DescStep(c) == CallGetPanelDescriptor(c) \/ DescQuery(c) \/ DescAlloc(c) \/ DescRead(c)
FreeStep(c) == FreeDisplays(c) \/ FreeDescriptor(c)

Next == Hotplug \/ \E c \in Callers : EnumStep(c) \/ DescStep(c) \/ FreeStep(c)

Spec == Init /\ [][Next]_vars

-------------------------------------------------------------------------------
(* Properties. *)

\* Whatever the displays do between the two runtime calls, the helpers and their
\* callers free no block twice, and the runtime writes past no block's end.
HeapIntact ==
    /\ fault = "none"
    /\ \A b \in Blocks : Cardinality(content[b]) <= size[b]

\* After a successful IGCL_EnumDisplays the first *pCount entries of the block
\* were written by the runtime: the caller may read them, even when displays
\* came or went after they were counted.
HandlesReadable ==
    \A c \in Callers : pc[c] = "displays" /\ result[c] = "SUCCESS" /\ pCount[c] > 0 =>
        Live(ppDisplays[c]) /\ pCount[c] <= Cardinality(content[ppDisplays[c]])

\* No block is lost: whoever is to free it still points at it, however the
\* call that allocated it ended; and no two callers are to free the same block.
BlocksOwned ==
    \A b \in Blocks : Live(b) =>
        Cardinality({c \in Callers : pc[c] \in {"enumFill", "displays"} /\ ppDisplays[c] = b})
      + Cardinality({c \in Callers : pc[c] \in {"descRead", "descriptor"} /\ pBuffer[c] = b})
      = 1

\* "Phase 2: actual read" (IGCLWrapper.i:231): the second call of
\* IGCL_GetPanelDescriptor reads into the block it has just allocated.
PhaseTwoReads ==
    \A c \in Callers : pc[c] = "descRead" => pDescriptorData[c] = pBuffer[c]

-------------------------------------------------------------------------------
(* The inductive invariant behind the safety properties. *)

\* The block c is to free.
OwnedBy(c) ==
    IF pc[c] \in {"enumFill", "displays"} THEN ppDisplays[c]
    ELSE IF pc[c] \in {"descRead", "descriptor"} THEN pBuffer[c] ELSE Null

\* A block in use has one owner, and an owner's block is in use.
OneOwner ==
    /\ \A c \in Callers : OwnedBy(c) # Null => Live(OwnedBy(c))
    /\ \A c, d \in Callers : OwnedBy(c) = OwnedBy(d) /\ OwnedBy(c) # Null => c = d
    /\ \A b \in Blocks : Live(b) => \E c \in Callers : OwnedBy(c) = b

\* Between two calls and up to the allocation a caller owns nothing.
CallerInv(c) ==
    /\ pc[c] \in {"enumCount", "enumAlloc"} => ppDisplays[c] = Null
    /\ pc[c] \notin {"descRead", "descriptor"} => pBuffer[c] = Null
    /\ pDescriptorData[c] = Null
    /\ pc[c] = "enumAlloc" => pCount[c] > 0
    /\ pc[c] = "descAlloc" => DescriptorDataSize[c] > 0
    /\ pc[c] = "enumFill" => pCount[c] = size[ppDisplays[c]]

IInv ==
    /\ TypeOK
    /\ HeapIntact
    /\ OneOwner
    /\ HandlesReadable
    /\ \A c \in Callers : CallerInv(c)
===============================================================================

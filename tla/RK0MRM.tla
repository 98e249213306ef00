------------------------------- MODULE RK0MRM -------------------------------
(***************************************************************************)
(* The most-recent-message protocol (core/src/kmrm.c): a writer reserves a *)
(* buffer and publishes a message in it; readers get the current buffer    *)
(* and unget it when they are done.  Every call is one critical section.   *)
(* The object is created and destroyed at run time (core/src/kdynobjs.c).  *)
(***************************************************************************)
EXTENDS RK0Mem, FiniteSets

CONSTANTS
    Writer,      \* the tasks that publish
    Reader,      \* the tasks that read
    mrmPool,     \* the buffers, RK_MRM_BUF
    mesgPool,    \* the blocks for the messages
    Message,     \* what is published
    Zero,        \* a block set to 0 by kMRMReserve
    None         \* NULL

Buf == ToSet(mrmPool)
Data == ToSet(mesgPool)

ASSUME MRMAssumption ==
    /\ mrmPool \in Seq(Buf) /\ mesgPool \in Seq(Data)
    /\ Len(mrmPool) = Len(mesgPool)
    /\ Cardinality(Buf) = Len(mrmPool) /\ Cardinality(Data) = Len(mesgPool)
    /\ None \notin Buf \cup Data \cup Message
    /\ Zero \notin Message

VARIABLES
    mrmInit,     \* RK_MRM.init
    mrmMem,      \* the partition of the buffers
    mrmDataMem,  \* the partition of the messages
    currBufPtr,  \* RK_MRM.currBufPtr
    nUsers,      \* RK_MRM_BUF.nUsers
    mrmData,     \* RK_MRM_BUF.mrmData
    content,     \* what the message blocks hold
    reserved,    \* ghost: the buffer a writer has reserved and not published
    reading      \* ghost: the buffers a reader got and has not returned

memVars == <<mrmMem, mrmDataMem>>
userVars == <<reserved, reading>>
mrmVars == <<mrmInit, memVars, currBufPtr, nUsers, mrmData, content, userVars>>

(* The blocks that are not in the free list. *)
Used(part, blocks) == blocks \ ToSet(part.freeList)

(* kMRMInit, for kMRMCreate *)
MRMCreate ==
    /\ ~mrmInit
    /\ mrmInit' = TRUE
    /\ mrmMem' = PartitionInit(mrmPool)
    /\ mrmDataMem' = PartitionInit(mesgPool)
    /\ currBufPtr' = None
    /\ UNCHANGED <<nUsers, mrmData, content, userVars>>

(* The current buffer is handed out again if nobody reads it.              *)
(* Fault: even then.                                                       *)
ReusesAlways == currBufPtr # None
Reuses == currBufPtr # None /\ nUsers[currBufPtr] = 0

(* kMRMReserve *)
ReserveCurrent(w) ==
    /\ content' = [content EXCEPT ![mrmData[currBufPtr]] = Zero]
    /\ nUsers' = [nUsers EXCEPT ![currBufPtr] = 0]
    /\ reserved' = [reserved EXCEPT ![w] = currBufPtr]
    /\ UNCHANGED <<memVars, mrmData>>

ReserveNew(w) ==
    LET b == AllocPtr(mrmMem) IN
    /\ CanAlloc(mrmMem) /\ CanAlloc(mrmDataMem)
    /\ mrmMem' = AllocRest(mrmMem)
    /\ mrmDataMem' = AllocRest(mrmDataMem)
    /\ nUsers' = [nUsers EXCEPT ![b] = 0]
    /\ mrmData' = [mrmData EXCEPT ![b] = AllocPtr(mrmDataMem)]
    /\ reserved' = [reserved EXCEPT ![w] = b]
    /\ UNCHANGED content

Reserve(w) ==
    /\ mrmInit
    /\ reserved[w] = None
    /\ IF Reuses THEN ReserveCurrent(w) ELSE ReserveNew(w)
    /\ UNCHANGED <<mrmInit, currBufPtr, reading>>

(* kMRMBufferValid_: both blocks are allocated. *)
BufferValid(b) ==
    /\ ~Contains(mrmMem.freeList, b)
    /\ ~Contains(mrmDataMem.freeList, mrmData[b])

(* kMRMReleaseBuffer_ *)
ReleaseBuffer(b) ==
    /\ mrmDataMem' = FreeBlock(mrmDataMem, mrmData[b])
    /\ mrmMem' = FreeBlock(mrmMem, b)

(* kMRMPublish.  Refused (RK_ERR_MEM_FREE), w keeps the buffer.            *)
(* Fault: what was current stays allocated.                                *)
PublishKeeps(w, m) ==
    /\ reserved[w] # None /\ BufferValid(reserved[w]) /\ nUsers[reserved[w]] = 0
    /\ content' = [content EXCEPT ![mrmData[reserved[w]]] = m]
    /\ currBufPtr' = reserved[w]
    /\ reserved' = [reserved EXCEPT ![w] = None]
    /\ UNCHANGED <<mrmInit, memVars, nUsers, mrmData, reading>>

Publish(w, m) ==
    LET b == reserved[w] IN
    /\ b # None /\ BufferValid(b) /\ nUsers[b] = 0
    /\ IF currBufPtr \notin {None, b} /\ nUsers[currBufPtr] = 0
         THEN ReleaseBuffer(currBufPtr) ELSE UNCHANGED memVars
    /\ content' = [content EXCEPT ![mrmData[b]] = m]
    /\ currBufPtr' = b
    /\ reserved' = [reserved EXCEPT ![w] = None]
    /\ UNCHANGED <<mrmInit, nUsers, mrmData, reading>>

(* kMRMGet.  It does not know who calls: a task that gets a buffer it has  *)
(* is another reader.                                                      *)
MRMGet(r) ==
    /\ mrmInit
    /\ currBufPtr # None
    /\ currBufPtr \notin reading[r]
    /\ nUsers' = [nUsers EXCEPT ![currBufPtr] = @ + 1]
    /\ reading' = [reading EXCEPT ![r] = @ \cup {currBufPtr}]
    /\ UNCHANGED <<mrmInit, memVars, currBufPtr, mrmData, content, reserved>>

(* kMRMUnget: the last to return a buffer that is not current releases it. *)
Unget(r, b) ==
    /\ b \in reading[r] /\ BufferValid(b) /\ nUsers[b] > 0
    /\ nUsers' = [nUsers EXCEPT ![b] = @ - 1]
    /\ IF nUsers[b] = 1 /\ currBufPtr # b THEN ReleaseBuffer(b) ELSE UNCHANGED memVars
    /\ reading' = [reading EXCEPT ![r] = @ \ {b}]
    /\ UNCHANGED <<mrmInit, currBufPtr, mrmData, content, reserved>>

(* kMRMDestroy: refused while anything but the current buffer is out, or   *)
(* somebody reads that.  That a writer has reserved the current buffer     *)
(* does not show: its reservation goes with the object.                    *)
MRMInUse ==
    LET currentHeld == IF currBufPtr = None THEN 0 ELSE 1 IN
    \/ currBufPtr # None /\ nUsers[currBufPtr] > 0
    \/ mrmMem.nMaxBlocks - mrmMem.nFreeBlocks # currentHeld
    \/ mrmDataMem.nMaxBlocks - mrmDataMem.nFreeBlocks # currentHeld

MRMDestroy ==
    /\ mrmInit
    /\ ~MRMInUse
    /\ mrmInit' = FALSE
    /\ IF currBufPtr # None THEN ReleaseBuffer(currBufPtr) ELSE UNCHANGED memVars
    /\ currBufPtr' = None
    /\ reserved' = [w \in Writer |-> None]
    /\ UNCHANGED <<nUsers, mrmData, content, reading>>

MRMInit ==
    /\ mrmInit = FALSE
    /\ mrmMem = PartitionInit(mrmPool)
    /\ mrmDataMem = PartitionInit(mesgPool)
    /\ currBufPtr = None
    /\ nUsers = [b \in Buf |-> 0]
    /\ mrmData = [b \in Buf |-> mesgPool[1]]
    /\ content = [d \in Data |-> Zero]
    /\ reserved = [w \in Writer |-> None]
    /\ reading = [r \in Reader |-> {}]

MRMNext ==
    \/ MRMCreate \/ MRMDestroy
    \/ \E w \in Writer : Reserve(w) \/ \E m \in Message : Publish(w, m)
    \/ \E r \in Reader : MRMGet(r) \/ \E b \in Buf : Unget(r, b)

MRMSpec == MRMInit /\ [][MRMNext]_mrmVars

(***************************************************************************)
(* Properties.                                                             *)
(***************************************************************************)

(* No buffer leaks and none is free while it is wanted: those out of the   *)
(* pool are the current one, those being written and those being read,     *)
(* each with a message block of its own, and each knows its readers.  A    *)
(* destroyed object has all of them back.                                  *)
MRMAccounted ==
    LET used == Used(mrmMem, Buf)
        wanted == {currBufPtr} \cup {reserved[w] : w \in Writer} \cup UNION {reading[r] : r \in Reader}
    IN  /\ used = wanted \ {None}
        /\ Used(mrmDataMem, Data) = {mrmData[b] : b \in used}
        /\ \A b, c \in used : mrmData[b] = mrmData[c] => b = c
        /\ \A b \in used : nUsers[b] = Cardinality({r \in Reader : b \in reading[r]})

(* What a reader got stays as it was until it returns it, however many     *)
(* messages are reserved and published meanwhile.                          *)
ReadersUndisturbed ==
    [][\A r \in Reader : \A b \in reading[r] :
          b \in reading'[r] => /\ mrmData'[b] = mrmData[b]
                               /\ content'[mrmData[b]] = content[mrmData[b]]]_mrmVars
=============================================================================

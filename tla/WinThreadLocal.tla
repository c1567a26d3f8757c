---------------------------- MODULE WinThreadLocal ----------------------------
(***************************************************************************)
(* The thread-local storage wrappers of src/src/common/compat_winthreads.c *)
(* over the Win32 TLS calls.  The process has a fixed range of TLS indexes *)
(* shared with other code in it (other libraries also call TlsAlloc and    *)
(* TlsFree).  Each index has one slot per thread.                          *)
(*                                                                         *)
(* Win32 semantics taken: TlsAlloc returns some free index and zeroes its  *)
(* slot in every thread, or TLS_OUT_OF_INDEXES when none is free; TlsFree  *)
(* makes the index free; TlsGetValue/TlsSetValue act on the slot of any    *)
(* index in range, allocated or not, and fail with ERROR_INVALID_PARAMETER *)
(* on TLS_OUT_OF_INDEXES.  A spider_threadlocal_t starts zeroed (index 0). *)
(***************************************************************************)
EXTENDS Naturals

CONSTANTS
  TLThreads,          \* the threads using the thread-locals
  TLocals,            \* the spider_threadlocal_t objects
  Indexes,            \* the process's TLS index range
  Values,             \* the void * values stored, NULL among them
  NULL,
  TLS_OUT_OF_INDEXES  \* (model value)

ASSUME NULL \in Values /\ TLS_OUT_OF_INDEXES \notin Indexes

VARIABLES
  allocated,  \* the indexes TlsAlloc has handed out and TlsFree not freed
  foreign,    \* those of them held by other code in the process
  slot,       \* slot[i][t]: TLS value of index i in thread t
  index,      \* threadlocal->index
  life        \* what the caller knows of each object: "new", "live" (init
              \* returned 0), "failed" (init returned -1), "destroyed"

tlvars == <<allocated, foreign, slot, index, life>>

TLInit ==
  /\ allocated = {} /\ foreign = {}
  /\ slot = [i \in Indexes |-> [t \in TLThreads |-> NULL]]
  /\ index = [l \in TLocals |-> 0]
  /\ life = [l \in TLocals |-> "new"]

Zeroed == [t \in TLThreads |-> NULL]

\* spider_threadlocal_init: index = TlsAlloc(); -1 if TLS_OUT_OF_INDEXES.
spider_threadlocal_init(l) ==
  /\ life[l] # "live"
  /\ \/ \E i \in Indexes \ allocated :
          /\ allocated' = allocated \cup {i}
          /\ slot' = [slot EXCEPT ![i] = Zeroed]
          /\ index' = [index EXCEPT ![l] = i]
          /\ life' = [life EXCEPT ![l] = "live"]
     \/ /\ allocated = Indexes
        /\ index' = [index EXCEPT ![l] = TLS_OUT_OF_INDEXES]
        /\ life' = [life EXCEPT ![l] = "failed"]
        /\ UNCHANGED <<allocated, slot>>
  /\ UNCHANGED foreign

TlsFree(i) == allocated' = allocated \ {i}

\* Seeded fault: the index is zeroed before it is freed.
DestroyMemsetFirst(l) ==
  /\ life[l] = "live"
  /\ index' = [index EXCEPT ![l] = 0]
  /\ TlsFree(0)
  /\ life' = [life EXCEPT ![l] = "destroyed"]
  /\ UNCHANGED <<foreign, slot>>

\* Seeded fault: the index is never given back to the system.
DestroyWithoutFree(l) ==
  /\ life[l] = "live"
  /\ index' = [index EXCEPT ![l] = 0]
  /\ UNCHANGED allocated
  /\ life' = [life EXCEPT ![l] = "destroyed"]
  /\ UNCHANGED <<foreign, slot>>

\* spider_threadlocal_destroy: TlsFree(index), then memset the object to 0.
spider_threadlocal_destroy(l) ==
  /\ life[l] = "live"
  /\ TlsFree(index[l])
  /\ index' = [index EXCEPT ![l] = 0]
  /\ life' = [life EXCEPT ![l] = "destroyed"]
  /\ UNCHANGED <<foreign, slot>>

(***************************************************************************)
(* spider_threadlocal_set by thread t on a live object stores into t's     *)
(* slot of the object's index.  A failed TlsSetValue ends in spider_assert;*)
(* that happens only on TLS_OUT_OF_INDEXES, which a live object never      *)
(* holds, so the branch is left out.  spider_threadlocal_get changes no    *)
(* state and is not an action.                                             *)
(***************************************************************************)
spider_threadlocal_set(t, l, v) ==
  /\ life[l] = "live" /\ index[l] \in Indexes
  /\ slot' = [slot EXCEPT ![index[l]][t] = v]
  /\ UNCHANGED <<allocated, foreign, index, life>>

\* Other code in the process allocates and frees TLS indexes.
OtherTlsAlloc ==
  \E i \in Indexes \ allocated :
    /\ allocated' = allocated \cup {i} /\ foreign' = foreign \cup {i}
    /\ slot' = [slot EXCEPT ![i] = Zeroed]
    /\ UNCHANGED <<index, life>>

OtherTlsFree ==
  \E i \in foreign :
    /\ allocated' = allocated \ {i} /\ foreign' = foreign \ {i}
    /\ UNCHANGED <<slot, index, life>>

TLNext ==
  \/ \E l \in TLocals :
       \/ spider_threadlocal_init(l)
       \/ spider_threadlocal_destroy(l)
       \/ \E t \in TLThreads, v \in Values : spider_threadlocal_set(t, l, v)
  \/ OtherTlsAlloc
  \/ OtherTlsFree

TLSpec == TLInit /\ [][TLNext]_tlvars

-----------------------------------------------------------------------------
(***************************************************************************)
(* spider_threadlocal_init fails only when every TLS index is really in    *)
(* use, by a live object or by other code: destroy gives back its own     *)
(* index, and only that one (index 0, which the memset leaves behind, is   *)
(* a valid index that another object or other code may hold).             *)
(***************************************************************************)
HeldIndexes ==
  foreign \cup {index[l] : l \in {m \in TLocals : life[m] = "live"}}

InitFailsOnlyWhenFull ==
  [][\A l \in TLocals :
       life'[l] = "failed" /\ life[l] # "failed" => HeldIndexes = Indexes]_tlvars
=============================================================================

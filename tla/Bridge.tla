------------------------------- MODULE Bridge -------------------------------
(***************************************************************************)
(* The native libraries of the mobile apps: the C functions of tintin-ffi  *)
(* (iOS) and the JNI functions of tintin-jni (Android).                    *)
(*                                                                         *)
(* A behaviour is one process with one of the two libraries, called from   *)
(* several threads.  A function is described by what the host can tell of  *)
(* it: whether it clears LAST_ERROR first, which handles it takes, what it *)
(* allocates, how it can fail, and which failures leave no text.  What it  *)
(* computes is the subject of Ratchet.  LAST_ERROR is one slot for all     *)
(* threads, locked for each access and not for a call; a host that is told *)
(* of a failure asks for the text in a call of its own.                    *)
(***************************************************************************)
EXTENDS Integers, FiniteSets

CONSTANTS Threads,
          MaxEntries    \* bound: calls of the library

ASSUME BridgeAssumption == MaxEntries \in Nat

VARIABLES lib,      \* "ffi" or "jni"
          slot,     \* LAST_ERROR: the call whose text it holds, or NoError
          heap,     \* objects the host has to free: [by |-> call, kind]
          frame,    \* [Threads -> the call under way, or Idle]
          entries,  \* calls begun
          \* history, read by no action of the library:
          told      \* [Threads -> the last text read after a failure, and why]

bridgeVars == <<lib, slot, heap, frame, entries, told>>

NoError == 0
Null == [by |-> NoError, kind |-> "null"]
Idle == [pc |-> "idle"]
NoText == [n |-> NoError, text |-> NoError, among |-> {}, alone |-> FALSE,
           silent |-> FALSE]
-----------------------------------------------------------------------------
(***************************************************************************)
(* tintin-ffi.  "null" is a null argument, "input" any other failure: text *)
(* that is not UTF-8 or not JSON, keys that do not agree, a cipher error.  *)
(***************************************************************************)
Ffi(clears, takes, gives, fails) ==
    [clears |-> clears, takes |-> takes, gives |-> gives, fails |-> fails,
     silent |-> {}]

tintin_identity_generate == Ffi(TRUE, {}, "identity", {})
tintin_identity_get_public == Ffi(FALSE, {"identity"}, "none", {"null"})
tintin_identity_to_json == Ffi(TRUE, {"identity"}, "string", {"null", "input"})
tintin_identity_from_json == Ffi(TRUE, {}, "identity", {"null", "input"})
tintin_signed_prekey_generate == Ffi(TRUE, {"identity"}, "prekey", {"null"})
tintin_signed_prekey_get_public == Ffi(FALSE, {"prekey"}, "none", {"null"})
tintin_signed_prekey_get_id == Ffi(FALSE, {"prekey"}, "none", {"null"})
tintin_session_new_initiator == Ffi(TRUE, {"identity"}, "session", {"null", "input"})
tintin_session_new_responder ==
    Ffi(TRUE, {"identity", "prekey"}, "session", {"null", "input"})
tintin_session_encrypt == Ffi(TRUE, {"session"}, "buffer", {"null", "input"})

\* Variant with a fault, for checking the properties: a message that does not
\* parse is refused without a text.
tintin_session_decrypt_silent ==
    [tintin_session_encrypt EXCEPT !.silent = {"input"}]
tintin_session_decrypt == Ffi(TRUE, {"session"}, "buffer", {"null", "input"})
tintin_session_to_json == Ffi(TRUE, {"session"}, "string", {"null", "input"})
tintin_session_from_json == Ffi(TRUE, {}, "session", {"null", "input"})
tintin_session_get_ratchet_key == Ffi(FALSE, {"session"}, "none", {"null"})
tintin_chat_message_to_json == Ffi(TRUE, {}, "buffer", {"null", "input"})

FfiFunctions ==
    {tintin_identity_generate, tintin_identity_get_public,
     tintin_identity_to_json, tintin_identity_from_json,
     tintin_signed_prekey_generate, tintin_signed_prekey_get_public,
     tintin_signed_prekey_get_id, tintin_session_new_initiator,
     tintin_session_new_responder, tintin_session_encrypt,
     tintin_session_decrypt, tintin_session_to_json, tintin_session_from_json,
     tintin_session_get_ratchet_key, tintin_chat_message_to_json}
-----------------------------------------------------------------------------
(***************************************************************************)
(* tintin-jni.  Strings and arrays are Java's and need no freeing.  A      *)
(* panic is caught and becomes a failure; it and the failures passed up    *)
(* with "?" leave no text unless the function says so.                     *)
(***************************************************************************)
Jni(takes, gives, fails, silent) ==
    [clears |-> TRUE, takes |-> takes, gives |-> gives,
     fails |-> fails \cup {"panic"}, silent |-> silent \cup {"panic"}]

identityGenerate == Jni({}, "identity", {}, {})
identityGetPublic == Jni({"identity"}, "none", {"null", "input"}, {"input"})

identityToJson == Jni({"identity"}, "none", {"null", "input"}, {"input"})

\* Variant with a fault, for checking the properties: the slot is not cleared.
identityFromJson_uncleared ==
    [Jni({}, "identity", {"input"}, {"input"}) EXCEPT !.clears = FALSE]
identityFromJson == Jni({}, "identity", {"input"}, {"input"})
signedPrekeyGenerate == Jni({"identity"}, "prekey", {"null"}, {})
signedPrekeyGetPublic == Jni({"prekey"}, "none", {"null", "input"}, {"input"})
sessionNewInitiator == Jni({"identity"}, "session", {"null", "input"}, {})
sessionNewResponder == Jni({"identity", "prekey"}, "session", {"null", "input"}, {})
sessionEncrypt == Jni({"session"}, "none", {"null", "input"}, {"null", "input"})
sessionDecrypt == Jni({"session"}, "none", {"null", "input"}, {"null", "input"})
sessionToJson == Jni({"session"}, "none", {"null", "input"}, {"null", "input"})
sessionFromJson == Jni({}, "session", {"input"}, {"input"})
sessionGetRatchetKey == Jni({"session"}, "none", {"null", "input"}, {"null", "input"})

JniFunctions ==
    {identityGenerate, identityGetPublic, identityToJson, identityFromJson,
     signedPrekeyGenerate, signedPrekeyGetPublic, sessionNewInitiator,
     sessionNewResponder, sessionEncrypt, sessionDecrypt, sessionToJson,
     sessionFromJson, sessionGetRatchetKey}

Functions == IF lib = "ffi" THEN FfiFunctions ELSE JniFunctions
-----------------------------------------------------------------------------
(***************************************************************************)
(* A call.                                                                 *)
(***************************************************************************)
BridgeInit ==
    /\ lib \in {"ffi", "jni"}
    /\ slot = NoError /\ heap = {} /\ entries = 0
    /\ frame = [t \in Threads |-> Idle]
    /\ told = [t \in Threads |-> NoText]

Active == {t \in Threads : frame[t] # Idle}

\* For every kind of handle the function takes, a live one or null.
Arguments(f) ==
    {a \in [f.takes -> heap \cup {Null}] :
        \A k \in f.takes : a[k].kind \in {k, "null"}}

enter(t, f) ==
    /\ frame[t] = Idle /\ entries < MaxEntries
    /\ entries' = entries + 1
    /\ \E a \in Arguments(f) :
           frame' = [frame EXCEPT ![t] =
               [pc |-> IF f.clears THEN "clear" ELSE "work", n |-> entries + 1,
                f |-> f, args |-> {a[k] : k \in f.takes}, mode |-> "ok",
                among |-> {frame[u].n : u \in Active}, alone |-> TRUE]]
    /\ UNCHANGED <<lib, slot, heap, told>>

\* Thread t goes to pc; what it did to the slot disturbs the calls of others.
Touch(t, pc) ==
    frame' = [u \in Threads |->
               IF u = t THEN [frame[t] EXCEPT !.pc = pc]
               ELSE IF u \in Active THEN [frame[u] EXCEPT !.alone = FALSE]
               ELSE Idle]

clear_error(t) ==
    /\ frame[t].pc = "clear"
    /\ slot' = NoError
    /\ Touch(t, "work")
    /\ UNCHANGED <<lib, heap, entries, told>>

\* The work is done and the result, if it has to be freed, is the host's.
succeed(t) ==
    /\ frame[t].pc = "work" /\ Null \notin frame[t].args
    /\ heap' = IF frame[t].f.gives = "none" THEN heap
               ELSE heap \cup {[by |-> frame[t].n, kind |-> frame[t].f.gives]}
    /\ frame' = [frame EXCEPT ![t] = Idle]
    /\ UNCHANGED <<lib, slot, entries, told>>

\* The work fails; nothing is allocated.
fail(t) ==
    /\ frame[t].pc = "work"
    /\ \E mode \in frame[t].f.fails :
        /\ Null \in frame[t].args => mode = "null"
        /\ frame' = [frame EXCEPT
             ![t].mode = mode,
             ![t].pc = IF mode \in frame[t].f.silent THEN "failed" ELSE "report"]
    /\ UNCHANGED <<lib, slot, heap, entries, told>>

set_error(t) ==
    /\ frame[t].pc = "report"
    /\ slot' = frame[t].n
    /\ Touch(t, "failed")
    /\ UNCHANGED <<lib, heap, entries, told>>

\* tintin_last_error and getLastError: a copy of the slot, which stays.  The C
\* function returns a string for the host to free.
last_error(t) ==
    /\ frame[t].pc = "failed"
    /\ told' = [told EXCEPT ![t] =
                  [n |-> frame[t].n, text |-> slot, among |-> frame[t].among,
                   alone |-> frame[t].alone,
                   silent |-> frame[t].mode \in frame[t].f.silent]]
    /\ heap' = IF lib = "jni" THEN heap
               ELSE heap \cup {[by |-> frame[t].n, kind |-> "string"]}
    /\ frame' = [frame EXCEPT ![t] = Idle]
    /\ UNCHANGED <<lib, slot, entries>>

\* A host that does not ask.
ignore(t) ==
    /\ frame[t].pc = "failed"
    /\ frame' = [frame EXCEPT ![t] = Idle]
    /\ UNCHANGED <<lib, slot, heap, entries, told>>

\* The free function of the object's kind, by a host that has it in no call.
free(o) ==
    /\ o \in heap /\ \A t \in Active : o \notin frame[t].args
    /\ heap' = heap \ {o}
    /\ UNCHANGED <<lib, slot, frame, entries, told>>

BridgeNext ==
    \/ \E t \in Threads :
        \/ \E f \in Functions : enter(t, f)
        \/ clear_error(t) \/ succeed(t) \/ fail(t) \/ set_error(t)
        \/ last_error(t) \/ ignore(t)
    \/ \E o \in heap : free(o)

BridgeSpec == BridgeInit /\ [][BridgeNext]_bridgeVars
-----------------------------------------------------------------------------
ObjectKinds == {"identity", "prekey", "session", "string", "buffer"}

BridgeTypeOK ==
    /\ lib \in {"ffi", "jni"} /\ slot \in 0..MaxEntries /\ entries \in 0..MaxEntries
    /\ heap \subseteq [by : 1..MaxEntries, kind : ObjectKinds]
    /\ lib = "jni" => \A o \in heap : o.kind \notin {"string", "buffer"}
    /\ \A t \in Active :
        /\ frame[t].pc \in {"clear", "work", "report", "failed"}
        /\ frame[t].n \in 1..entries /\ frame[t].f \in Functions
        /\ frame[t].args \subseteq heap \cup {Null}
        /\ \A u \in Active \ {t} : frame[u].n # frame[t].n

(***************************************************************************)
(* OwnError: a host whose call failed, and in whose call and question no   *)
(* other thread touched the slot, is told the text of that very call, or   *)
(* nothing if the failure is one that leaves no text (JNI only).  Some C   *)
(* functions do not clear the slot; those must set it whenever they fail.  *)
(***************************************************************************)
OwnError ==
    \A t \in Threads : told[t].alone =>
        /\ told[t].text = IF told[t].silent THEN NoError ELSE told[t].n
        /\ lib = "ffi" => told[t].text # NoError

(***************************************************************************)
(* FreshError: whatever the other threads do, the text a host is told is   *)
(* of its own call or of one that was under way or begun since: never one  *)
(* of a call that had returned before.                                     *)
(***************************************************************************)
FreshError ==
    \A t \in Threads :
        told[t].text = NoError
          \/ told[t].text >= told[t].n \/ told[t].text \in told[t].among
=============================================================================

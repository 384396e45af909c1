--------------------------- MODULE StructArguments ---------------------------
(***************************************************************************)
(* The life of one struct a script writes as an argument of a system call  *)
(* (script.c, run_system_call.c).  evaluate() copies the expression, node  *)
(* after node, resolving symbols; the handler reads the members into the   *)
(* struct it hands to the kernel (setsockopt() and the calls that send) or *)
(* compares the members with what the kernel answered (getsockopt() and    *)
(* the calls that receive); free_expression_list() frees the copy.         *)
(*                                                                         *)
(* A node is named by its path from the argument.  Every member is written *)
(* as the integer 1, an IPv4 address, a string or a list of two elements,  *)
(* as its slot asks, except at most one node, `odd', anywhere in the tree, *)
(* which may be an ellipsis, another value, a symbol, a | expression or    *)
(* something that does not evaluate.  The grammar allows symbols and |     *)
(* for some scalar members only; the model allows them for all.            *)
(* Widths are scaled: 1 bit for 8, 2 bits for 16, 3 bits for 32.           *)
(***************************************************************************)
EXTENDS Integers, SequencesExt, ExpressionTables, OptionTables

CONSTANT Types      \* the structs explored

ASSUME TypesAssumption == Types \subseteq DOMAIN Structs

VARIABLES
  arg,        \* the struct written
  phase,      \* "evaluate", "call", "check", "free" or "done"
  todo,       \* what evaluate() or the handler still has to visit, in order
  odd,        \* the one node that is not as usual, as [at, is], or NoOdd
  linked,     \* the copied nodes some pointer leads to, as [at, kind]
  heap,       \* the copied nodes that are allocated
  badfree,    \* has something been freed twice?
  op,         \* what the handler does: "none", "set", "send", "get" or "recv"
  kern,       \* what the kernel was given: path -> value
  stored,     \* has the kernel accepted kern as the option's value?
  tmp,        \* does the handler hold a malloc()ed struct?
  outcome,    \* STATUS_OK or STATUS_ERR, and why
  compared,   \* the members compared with the kernel's
  mismatched  \* those of them that differ, at the width of the kernel

argVars == <<arg, phase, todo, odd, linked, heap, badfree, op, kern, stored, tmp,
             outcome, compared, mismatched>>

------------------------------------------------------------------------------
(* Expressions. *)
Range8  == 0..1
Range16 == 0..3
Range32 == 0..7
Signed32 == -4..3
Probes  == {-1, 0, 2, 5}
NoOdd   == [at |-> <<"none">>, is |-> [kind |-> "NONE", val |-> 0]]

Scalars == {"u8", "u16", "u32", "s32", "assoc"}
Lists   == [u8s |-> "u8", u16s |-> "u16", ids |-> "assoc", iovecs |-> "iovec",
            cmsgs |-> "cmsghdr"]
EventData == {"sac_info", "sre_data", "ssf_data", "ssfe_data"}

E(k, v) == [kind |-> k, val |-> v]

KernelRange(slot) ==
  CASE slot = "u8" -> Range8 [] slot = "u16" -> Range16 [] slot = "s32" -> Signed32
    [] OTHER -> Range32

Usual(slot) ==
  CASE slot \in Scalars -> E("INTEGER", 1)
    [] slot = "addr" -> E("IPV4", 1)
    [] slot = "str"  -> E("STRING", 1)
    [] slot = "hex"  -> E("HEX_WORD", 1)
    [] slot = "data" -> E("ELLIPSIS", 0)
    [] slot \in DOMAIN Lists -> E("LIST", 0)
    [] OTHER -> E(slot, 0)

Unusual(slot, at) ==
  CASE slot \in Scalars ->
         {E("INTEGER", v) : v \in Probes \cap KernelRange(slot)}
         \cup {E(k, v) : k \in {"WORD", "BINARY"}, v \in Probes \cap Range32}
         \cup {E(k, 0) : k \in {"ELLIPSIS", "UNKNOWN_WORD", "BAD_BINARY"}}
    [] slot = "addr" -> {E("ELLIPSIS", 0), E("IPV4", 2), E("IPV6", 3)}
    [] slot = "str"  -> {E("ELLIPSIS", 0), E("STRING", 2), E("BAD_STRING", 0)}
    [] slot = "hex"  -> {E("ELLIPSIS", 0), E("HEX_WORD", 2), E("ODD_HEX_WORD", 0)}
    [] slot \in DOMAIN Lists -> IF Last(at) \in EventData THEN {E("ELLIPSIS", 0)} ELSE {}
    [] slot = "data" -> {}
    [] OTHER -> IF at = <<>> THEN {} ELSE {E("ELLIPSIS", 0)}

(* The slot a path leads to. *)
SlotBelow(slot, m) ==
  IF slot \in DOMAIN Structs THEN Structs[slot][m] ELSE Lists[slot]

SlotOf(at) == FoldLeft(SlotBelow, arg, at)

Written(at) == IF odd.at = at THEN odd.is ELSE Usual(SlotOf(at))

------------------------------------------------------------------------------
(* Evaluation and release. *)

(* symbol_to_int() finds the word or does not. *)
symbol_to_int(e) == e.kind # "UNKNOWN_WORD"

(* Both sides are evaluated, or-ed when both are integers, and freed on every path. *)
evaluate_binary_expression(e) == e.kind # "BAD_BINARY"

(* An unsupported escape, or an odd number of hexadecimal digits, is an error. *)
unescape_cstring_expression(e) == e.kind # "BAD_STRING"
hex_word_expression(e) == e.kind # "ODD_HEX_WORD"

Evaluates(e) ==
  /\ symbol_to_int(e)
  /\ evaluate_binary_expression(e)
  /\ unescape_cstring_expression(e)
  /\ hex_word_expression(e)

(* The evaluated expression: words and | expressions have become integers. *)
Evaluated(e) == IF e.kind \in {"WORD", "BINARY"} THEN E("INTEGER", e.val) ELSE e

(* What evaluate() visits below a node. *)
Below(at, e) ==
  IF e.kind \in DOMAIN evaluate
  THEN [i \in 1..Len(evaluate[e.kind]) |-> Append(at, evaluate[e.kind][i])]
  ELSE IF e.kind = "LIST" THEN <<Append(at, "0"), Append(at, "1")>> ELSE <<>>

FreedBelow(kind) ==
  IF kind \in DOMAIN free_expression THEN ToSet(free_expression[kind]) ELSE {"0", "1"}

(* free_expression(): the nodes of links that the frees below the node at `at' reach. *)
Reached(links, at) ==
  {n \in links : /\ IsPrefix(at, n.at)
                 /\ \A p \in links :
                      /\ IsPrefix(at, p.at)
                      /\ IsStrictPrefix(p.at, n.at)
                      => n.at[Len(p.at) + 1] \in FreedBelow(p.kind)}

FreesTwice(links) ==
  \E n \in links : /\ n.kind \in DOMAIN free_expression
                   /\ ~IsInjective(free_expression[n.kind])

At(nodes) == {n.at : n \in nodes}

(* free_expression_list() on the elements of the lists that enclose a node that failed, *)
(* each of which evaluate_expression_list() then sets to NULL. *)
Dropped(links, at) ==
  {n \in links : \E l \in links : /\ l.kind = "LIST"
                                  /\ IsStrictPrefix(l.at, n.at)
                                  /\ IsStrictPrefix(l.at, at)}

(* free_expression_list() on a tree of links of which `live' is allocated. *)
free_expression_list(links, live) ==
  LET nodes == At(Reached(links, <<>>)) IN
  /\ badfree' = (badfree \/ FreesTwice(links) \/ ~(nodes \subseteq live))
  /\ heap' = live \ nodes
  /\ linked' = {}

ArgInit ==
  /\ arg \in Types
  /\ phase = "evaluate" /\ todo = << <<>> >> /\ odd = NoOdd
  /\ linked = {} /\ heap = {} /\ badfree = FALSE
  /\ op = "none" /\ kern = <<>> /\ stored = FALSE /\ tmp = FALSE
  /\ outcome = "ok" /\ compared = <<>> /\ mismatched = {}

(* evaluate() of the next node: the copy is allocated and linked before its type is *)
(* looked at, so that it can be freed when the evaluation fails. *)
EvaluateNode ==
  /\ phase = "evaluate" /\ todo # <<>>
  /\ LET at == Head(todo) IN
     \E o \in {odd} \cup {[at |-> at, is |-> e] : e \in
                 IF odd = NoOdd THEN Unusual(SlotOf(at), at) ELSE {}} :
       LET e == IF o.at = at THEN o.is ELSE Usual(SlotOf(at))
           links == linked \cup {[at |-> at, kind |-> e.kind]}
           lost == Dropped(links, at) IN
       /\ odd' = o
       /\ IF Evaluates(e)
          THEN /\ todo' = Below(at, e) \o Tail(todo)
               /\ linked' = links /\ heap' = heap \cup {at}
               /\ UNCHANGED <<phase, outcome, badfree>>
          ELSE /\ todo' = <<>> /\ phase' = "done" /\ outcome' = "err_evaluate"
               /\ free_expression_list(links \ lost, (heap \cup {at}) \ At(lost))
  /\ UNCHANGED <<arg, op, kern, stored, tmp, compared, mismatched>>

------------------------------------------------------------------------------
(* The handlers. *)
Steps(table, at) == [i \in 1..Len(table) |-> <<table[i][1], Append(at, table[i][2])>>]

ElementSteps(how, at) ==
  [i \in 1..2 |-> <<IF how = "ids" THEN "id" ELSE Lists[how], Append(at, <<"0", "1">>[i])>>]

Wrap(v, bits) == IF v % 2^bits >= 2^(bits - 1) THEN (v % 2^bits) - 2^bits ELSE v % 2^bits

(* get_u8(), get_u16(), get_u32(), get_s32(), get_sctp_assoc_t(), get_sockstorage_arg() *)
(* and the type checks on strings: is the expression acceptable, and what does it give? *)
Dots(e) == e.kind = "ELLIPSIS"
get_u8(e)  == e.kind = "INTEGER" /\ e.val \in Range8
get_u16(e) == e.kind = "INTEGER" /\ e.val \in Range16
get_u32(e) == e.kind = "INTEGER" /\ e.val \in Range32
get_s32(e) == e.kind = "INTEGER" /\ e.val \in Signed32 \cup Range32
get_sctp_assoc_t(e) == Dots(e) \/ (e.kind = "INTEGER" /\ e.val >= 0)
get_sockstorage_arg(e) == e.kind \in {"ELLIPSIS", "IPV4", "IPV6"}
check_type(e, kind) == e.kind = kind

Reads(how, e) ==
  CASE how = "u8" -> get_u8(e) [] how = "u16" -> get_u16(e) [] how = "u32" -> get_u32(e)
    [] how = "s32" -> get_s32(e) [] how \in {"assoc", "id"} -> get_sctp_assoc_t(e)
    [] how = "u32opt" -> Dots(e) \/ get_u32(e)
    [] how = "addr" -> get_sockstorage_arg(e)
    [] how = "str" -> check_type(e, "STRING")
    [] how = "stropt" -> Dots(e) \/ check_type(e, "STRING")
    [] how = "hex" -> check_type(e, "HEX_WORD")
    [] how = "list" -> check_type(e, "LIST")

(* getpeername() gives the address an ellipsis stands for. *)
Value(how, e) ==
  CASE Dots(e) /\ how = "addr" -> 1 [] Dots(e) /\ how # "addr" -> 0
    [] ~Dots(e) /\ how = "s32" -> Wrap(e.val, 3) [] OTHER -> e.val

(* The handler starts: the struct of its argument selects what it does. *)
BeginCall ==
  /\ phase = "evaluate" /\ todo = <<>>
  /\ \/ arg \in DOMAIN Sets  /\ op' = "set"  /\ todo' = Steps(Sets[arg], <<>>) /\ phase' = "call"
     \/ arg \in DOMAIN Sends /\ op' = "send" /\ todo' = Steps(Sends[arg], <<>>) /\ phase' = "call"
     \/ arg \in DOMAIN Gets  /\ op' = "get"  /\ todo' = Steps(Gets[arg], <<>>) /\ phase' = "call"
     \/ /\ arg \in DOMAIN Checks \ DOMAIN Gets
        /\ op' = "recv" /\ todo' = Steps(Checks[arg], <<>>) /\ phase' = "check"
     \/ /\ arg \notin DOMAIN Sets \cup DOMAIN Sends \cup DOMAIN Gets \cup DOMAIN Checks
        /\ phase' = "free" /\ UNCHANGED <<op, todo>>
  /\ UNCHANGED <<arg, odd, linked, heap, badfree, kern, stored, tmp, outcome, compared,
                 mismatched>>

(* A member is read into the struct for the kernel; an error returns at once, after *)
(* freeing what the case had allocated. *)
ReadMember ==
  /\ phase = "call" /\ todo # <<>>
  /\ LET how == Head(todo)[1]
         at  == Head(todo)[2]
         e   == IF how \in {"malloc", "beyond"} THEN E("NONE", 0) ELSE Evaluated(Written(at))
         Proceed(steps) == /\ todo' = steps \o Tail(todo)
                           /\ UNCHANGED <<phase, outcome>>
         Fail == /\ todo' = <<>> /\ phase' = "free" /\ outcome' = "err_read"
                 /\ tmp' = FALSE /\ UNCHANGED kern IN
     \/ /\ how = "malloc"
        /\ tmp' = TRUE /\ UNCHANGED kern /\ Proceed(<<>>)
     \/ /\ how \in DOMAIN Lists          \* each element in turn
        /\ UNCHANGED <<kern, tmp>> /\ Proceed(ElementSteps(how, at))
     \/ /\ how = "unchecked"             \* errors ignored; &pointer is what is passed
        /\ kern' = <<>> /\ UNCHANGED tmp /\ Proceed(<<>>)
     \/ /\ how = "spa"                   \* all three look at the type of sendv_sndinfo
        /\ \/ Dots(Written(<<"sendv_sndinfo">>)) /\ Proceed(<<>>) /\ UNCHANGED <<kern, tmp>>
           \/ ~Dots(Written(<<"sendv_sndinfo">>)) /\ Dots(e) /\ Fail
           \/ /\ ~Dots(Written(<<"sendv_sndinfo">>)) /\ ~Dots(e)
              /\ Proceed(Steps(Sends[e.kind], at)) /\ UNCHANGED <<kern, tmp>>
     \/ /\ how = "beyond"                \* a member that the expression does not have is read
        /\ \/ Fail
           \/ Proceed(<<>>) /\ UNCHANGED <<kern, tmp>>
     \/ /\ how \notin {"malloc", "unchecked", "spa", "beyond"} \cup DOMAIN Lists
        /\ \/ (~Reads(how, e) \/ (how = "addr" /\ Dots(e))) /\ Fail  \* getpeername() may fail
           \/ /\ Reads(how, e)
              /\ kern' = IF how = "list" \/ op = "get" THEN kern
                         ELSE (at :> Value(how, e)) @@ kern
              /\ Proceed(<<>>) /\ UNCHANGED tmp
  /\ UNCHANGED <<arg, odd, linked, heap, badfree, op, stored, compared, mismatched>>

(* The system call.  A refused call is what the script expects or ends the test; after an *)
(* accepted setsockopt() the script may read the option back. *)
SetOrSend ==
  /\ phase = "call" /\ todo = <<>> /\ op \in {"set", "send"}
  /\ tmp' = FALSE
  /\ \/ /\ phase' = "free" /\ stored' = (op = "set")
        /\ UNCHANGED <<op, todo>>
     \/ /\ phase' = "free" /\ UNCHANGED <<op, todo, stored>>    \* refused
     \/ /\ op = "set" /\ arg \in DOMAIN Gets
        /\ stored' = TRUE
        /\ op' = "get" /\ todo' = Steps(Gets[arg], <<>>) /\ phase' = "call"
  /\ UNCHANGED <<arg, odd, linked, heap, badfree, kern, outcome, compared, mismatched>>

(* getsockopt() returned: an error is what the script expects or ends the test; without *)
(* one the answer is checked, if the second switch has a case for it. *)
GetAnswered ==
  /\ phase = "call" /\ todo = <<>> /\ op = "get"
  /\ \/ /\ ~stored
        /\ phase' = "free" /\ tmp' = FALSE /\ outcome' = "refused" /\ UNCHANGED todo
     \/ /\ arg \in DOMAIN Checks
        /\ phase' = "check" /\ todo' = Steps(Checks[arg], <<>>) /\ UNCHANGED <<tmp, outcome>>
     \/ /\ arg \notin DOMAIN Checks
        /\ phase' = "free" /\ tmp' = FALSE /\ UNCHANGED <<todo, outcome>>
  /\ UNCHANGED <<arg, odd, linked, heap, badfree, op, kern, stored, compared, mismatched>>

(* What the kernel may answer for a member: what it was given, or anything. *)
Answers(at) ==
  IF stored /\ at \in DOMAIN kern THEN {kern[at]}
  ELSE CASE SlotOf(at) = "addr" -> 1..3
         [] SlotOf(at) \in {"str", "hex"} -> 1..2
         [] OTHER -> KernelRange(SlotOf(at)) \cap (Probes \cup {1})

(* check_sockaddr(): for IPv6 the addresses of the two arrays are compared. *)
check_sockaddr(e, v) == e.kind = "IPV4" /\ e.val = v

(* check_u8_expr() and the like: the kernel's value is a parameter of the checker's type. *)
check_u8_expr(e, v)  == e.val = v % 2
check_u16_expr(e, v) == e.val = v % 4
check_s32_expr(e, v) == Wrap(e.val, 3) = Wrap(v, 2)
check_u32_expr(e, v) == e.val = v
check_sctp_assoc_t_expr(e, v) == Value("assoc", e) = v

Agrees(how, e, v) ==
  CASE how = "u8" -> check_u8_expr(e, v) [] how = "u16" -> check_u16_expr(e, v)
    [] how = "s32" -> check_s32_expr(e, v) [] how = "u32" -> check_u32_expr(e, v)
    [] how \in {"assoc", "id"} -> check_sctp_assoc_t_expr(e, v)
    [] how = "addr" -> check_sockaddr(e, v)
    [] OTHER -> e.val = v

Differs(at, e, v) == (IF SlotOf(at) = "s32" THEN Wrap(e.val, 3) ELSE e.val) # v

(* One comparison; an ellipsis is skipped, a nested struct or an array is entered. *)
CheckMember ==
  /\ phase = "check" /\ todo # <<>>
  /\ LET how == Head(todo)[1]
         at  == Head(todo)[2]
         e   == Evaluated(Written(at))
         Fail(why) == phase' = "free" /\ todo' = <<>> /\ outcome' = why /\ tmp' = FALSE
         Proceed(steps) == todo' = steps \o Tail(todo) /\ UNCHANGED <<phase, outcome, tmp>> IN
     \/ /\ Dots(e) /\ how # "id"
        /\ Proceed(<<>>) /\ UNCHANGED <<compared, mismatched>>
     \/ /\ how = "list"
        /\ Proceed(<<>>) /\ UNCHANGED <<compared, mismatched>>
     \/ /\ ~Dots(e) /\ how \in DOMAIN Checks
        /\ Proceed(Steps(Checks[how], at)) /\ UNCHANGED <<compared, mismatched>>
     \/ /\ ~Dots(e) /\ how \in DOMAIN Lists
        /\ \/ Proceed(ElementSteps(how, at)) /\ UNCHANGED <<compared, mismatched>>
           \/ /\ ~stored                          \* the kernel returned another length
              /\ Fail("err_check")
              /\ compared' = Append(compared, at) /\ mismatched' = mismatched \cup {at}
     \/ /\ ~Dots(e) \/ how = "id"
        /\ how \notin DOMAIN Checks \cup DOMAIN Lists \cup {"list"}
        /\ \/ ~Reads(how, e) /\ Fail("err_read") /\ UNCHANGED <<compared, mismatched>>
           \/ /\ Reads(how, e)
              /\ \E v \in Answers(at) :
                   /\ compared' = Append(compared, at)
                   /\ mismatched' = IF Differs(at, e, v) THEN mismatched \cup {at}
                                    ELSE mismatched
                   /\ IF Agrees(how, e, v) THEN Proceed(<<>>) ELSE Fail("err_check")
  /\ UNCHANGED <<arg, odd, linked, heap, badfree, op, kern, stored>>

EndCheck ==
  /\ phase = "check" /\ todo = <<>>
  /\ phase' = "free" /\ tmp' = FALSE
  /\ UNCHANGED <<arg, todo, odd, linked, heap, badfree, op, kern, stored, outcome, compared,
                 mismatched>>

(* invoke_system_call() frees the evaluated arguments whatever the handler returned. *)
FreeArguments ==
  /\ phase = "free"
  /\ free_expression_list(linked, heap)
  /\ phase' = "done"
  /\ UNCHANGED <<arg, todo, odd, op, kern, stored, tmp, outcome, compared, mismatched>>

ArgNext == EvaluateNode \/ BeginCall \/ ReadMember \/ SetOrSend \/ GetAnswered
        \/ CheckMember \/ EndCheck \/ FreeArguments

ArgSpec == ArgInit /\ [][ArgNext]_argVars

------------------------------------------------------------------------------
(* Types; what a member of the struct for the kernel is given fits it (get_u8() and the like). *)
ArgTypeOK ==
  /\ arg \in Types
  /\ phase \in {"evaluate", "call", "check", "free", "done"}
  /\ op \in {"none", "set", "send", "get", "recv"}
  /\ outcome \in {"ok", "refused", "err_evaluate", "err_read", "err_check"}
  /\ tmp \in BOOLEAN /\ stored \in BOOLEAN /\ badfree \in BOOLEAN
  /\ \A p \in DOMAIN kern : kern[p] \in KernelRange(SlotOf(p))
  /\ mismatched \subseteq ToSet(compared)

(* The copy evaluate() makes is freed exactly once and completely, whichever node fails to *)
(* evaluate and whichever step of the handler fails: the members evaluate_X_expression     *)
(* fills are those free_expression frees, and an evaluation that stops half-way leaves     *)
(* nothing behind.  The handler's own struct is freed too.                                 *)
FreedOnce == ~badfree /\ (phase = "done" => heap = {} /\ ~tmp)

(* The members a handler takes as input only, and the structs getsockopt() cannot check. *)
InputOnly == {"spinfo_address", "spp_assoc_id", "spp_address", "sue_assoc_id", "sue_address"}
NotChecked == {"sctp_prinfo", "sctp_reset_streams", "sctp_add_streams"}

(* check_s32_expr() takes the kernel's value as s16, check_sctp_assoc_value() as u16. *)
Truncated(at) == SlotOf(at) = "s32" \/ Last(at) = "assoc_value"

(* When a call that returns a struct passes, every member the script gives was compared    *)
(* with the kernel's, and agrees with it at the width of the kernel's member.  The members *)
(* the checker truncates are excepted, and so are the inputs.                              *)
PassMeansMatch ==
  phase = "free" /\ outcome = "ok" /\ op \in {"get", "recv"} =>
    /\ \A at \in mismatched : Truncated(at)
    /\ arg \notin NotChecked =>
         \A n \in linked :
           \/ n.kind = "ELLIPSIS" \/ n.kind = "LIST" \/ n.kind \in DOMAIN Structs
           \/ Last(n.at) \in InputOnly
           \/ n.at \in ToSet(compared)

(* A test is not failed for a struct that is as the script says: when a comparison ends    *)
(* the test, the member it was about differs.  Excepted are the values a checker           *)
(* truncates, IPv6 addresses, and an ellipsis inside a list of association identifiers.    *)
FailMeansMismatch ==
  outcome = "err_check" =>
    LET at == Last(compared) IN
    \/ at \in mismatched \/ Truncated(at)
    \/ Written(at).kind = "IPV6"
    \/ Dots(Written(at)) /\ SlotOf(Front(at)) = "ids"

(* The comparison of a returned struct with the script (check_X of the handlers) is right  *)
(* both ways: what passes matches, and what fails does not.                                *)
VerdictIsRight == PassMeansMatch /\ FailMeansMismatch

(* Read-only options, the option of which a pointer's address is passed, and a sendv_spa   *)
(* without sndinfo, whose other parts are skipped. *)
NotHanded ==
  \/ arg \in {"sctp_status", "sctp_paddrinfo", "sctp_hmacalgo"}
  \/ arg = "sctp_sendv_spa" /\ Dots(Written(<<"sendv_sndinfo">>))

(* A struct handed to the kernel holds, in every member and every element of an array, the *)
(* value the script gives, symbols resolved.                                               *)
KernelGetsScript ==
  phase = "free" /\ outcome = "ok" /\ op \in {"set", "send"} /\ ~NotHanded =>
    \A n \in linked :
      \/ n.kind \in {"ELLIPSIS", "LIST"} \cup DOMAIN Structs
      \/ n.at \in DOMAIN kern /\ kern[n.at] = Value(SlotOf(n.at), Evaluated(Written(n.at)))

(* An option set from an expression and read back with the same expression passes, if the  *)
(* kernel returns what it was given.                                                       *)
RoundTrip ==
  phase = "done" /\ op = "get" /\ stored /\ outcome # "ok" =>
    \/ NotHanded \/ arg \in NotChecked
    \/ /\ odd # NoOdd
       /\ \/ Truncated(odd.at)
          \/ SlotOf(odd.at) = "addr" /\ odd.is.kind \in {"IPV6", "ELLIPSIS"}
=============================================================================

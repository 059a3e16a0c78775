----------------------------- MODULE UniqueJSON -----------------------------
(***************************************************************************)
(* walkJSONValue and its caller (ValidateUniqueJSON in internal/contract,  *)
(* and the same code as validateUniqueObjectKeys in internal/server): a    *)
(* JSON document is read token by token, and refused when an object has a  *)
(* key twice or when something follows the value.  The recursion is a      *)
(* stack of frames, one for every object or array that is open; an object  *)
(* frame holds the keys seen.                                              *)
(*                                                                         *)
(* The tokens come from encoding/json, which yields those of a JSON text   *)
(* or an error: keys only in objects, a value after each key, matching     *)
(* brackets.  Keys are the strings after unescaping.                       *)
(***************************************************************************)
EXTENDS Naturals, Sequences, SequencesExt

CONSTANTS Keys,        \* strings, also used as string values
          MaxTokens    \* bound: tokens of a document

Scalar == "scalar"

WalkConstants ==
    /\ Keys \cap {Scalar, "{", "}", "[", "]"} = {}
    /\ MaxTokens \in Nat

VARIABLES
    read,      \* the tokens so far
    stack,     \* frames [delim, seen], the innermost last
    pc,        \* value: a value is expected; more: decoder.More; end: after the value; done
    result     \* none, accepted, duplicate, multiple, syntax

vars == <<read, stack, pc, result>>

Init == read = <<>> /\ stack = <<>> /\ pc = "value" /\ result = "none"

-----------------------------------------------------------------------------
Token(t) == Len(read) < MaxTokens /\ read' = Append(read, t)

Return(r) == pc' = "done" /\ result' = r

Top == stack[Len(stack)]

(* A value is complete: back to the loop of the frame, or to the caller. *)
After(frames) == IF frames = <<>> THEN "end" ELSE "more"

ReadScalar ==
    /\ pc = "value" /\ Token(Scalar)
    /\ pc' = After(stack)
    /\ UNCHANGED <<stack, result>>

OpenFrame(delim) ==
    /\ pc = "value" /\ Token(delim)
    /\ stack' = Append(stack, [delim |-> delim, seen |-> {}])
    /\ pc' = "more"
    /\ UNCHANGED result

(* Mutant: only the keys of the outermost object are compared. *)
ReadKey_outermost(key) ==
    /\ pc = "more" /\ Top.delim = "{" /\ Token(key)
    /\ IF key \in Top.seen /\ Len(stack) = 1
       THEN Return("duplicate") /\ UNCHANGED stack
       ELSE /\ stack' = [stack EXCEPT ![Len(stack)].seen = @ \cup {key}]
            /\ pc' = "value"
            /\ UNCHANGED result

ReadKey(key) ==
    /\ pc = "more" /\ Top.delim = "{" /\ Token(key)
    /\ IF key \in Top.seen
       THEN Return("duplicate") /\ UNCHANGED stack
       ELSE /\ stack' = [stack EXCEPT ![Len(stack)].seen = @ \cup {key}]
            /\ pc' = "value"
            /\ UNCHANGED result

(* In an array, More is followed by a value. *)
Element ==
    /\ pc = "more" /\ Top.delim = "["
    /\ pc' = "value"
    /\ UNCHANGED <<read, stack, result>>

Close ==
    /\ pc = "more" /\ Token(IF Top.delim = "{" THEN "}" ELSE "]")
    /\ stack' = Front(stack)
    /\ pc' = After(Front(stack))
    /\ UNCHANGED result

Trailing ==
    /\ pc = "end" /\ \E t \in {Scalar, "{", "["} : Token(t)
    /\ Return("multiple")
    /\ UNCHANGED stack

EndOfFile ==
    /\ pc = "end"
    /\ Return("accepted")
    /\ UNCHANGED <<read, stack>>

(* The text is cut or is no JSON: Token returns an error. *)
SyntaxError ==
    /\ pc # "done"
    /\ Return("syntax")
    /\ UNCHANGED <<read, stack>>

Next ==
    \/ ReadScalar \/ (\E delim \in {"{", "["} : OpenFrame(delim))
    \/ (\E key \in Keys : ReadKey(key))
    \/ Element \/ Close \/ Trailing \/ EndOfFile \/ SyntaxError

Spec == Init /\ [][Next]_vars

-----------------------------------------------------------------------------
Opens(i)  == read[i] \in {"{", "["}
Closes(i) == read[i] \in {"}", "]"}

(* How many objects and arrays are open before token i. *)
Depth(i) ==
    LET depth[n \in 1 .. Len(read) + 1] ==
            IF n = 1 THEN 0
            ELSE depth[n - 1] + (IF Opens(n - 1) THEN 1 ELSE 0) - (IF Closes(n - 1) THEN 1 ELSE 0)
    IN  depth[i]

(* The bracket around token i: the last one before it that is one less deep. *)
Around(i) == Max({0} \cup {o \in 1 .. i - 1 : Opens(o) /\ Depth(o) = Depth(i) - 1})

KeyTokens == {i \in DOMAIN read : read[i] \in Keys}

Repeated == {i \in KeyTokens : \E j \in KeyTokens :
                j < i /\ read[j] = read[i] /\ Around(j) = Around(i)}

(* Values at the top: a scalar or an opening bracket outside any other. *)
TopValues == {i \in DOMAIN read : Depth(i) = 0 /\ ~Closes(i)}

(* A document that is accepted means the same to every decoder: no object, *)
(* however deep, gives a key twice, and there is exactly one value.        *)
Unambiguous ==
    result = "accepted" =>
        Repeated = {} /\ (\E i \in DOMAIN read : TopValues = {i}) /\ Depth(Len(read) + 1) = 0

(* A document is called ambiguous only when it is: the same key in two     *)
(* objects, one inside the other or one after the other, is no duplicate.  *)
NoFalseAlarm ==
    /\ result = "duplicate" => Repeated = {Len(read)}
    /\ result = "multiple" => Len(read) \in TopValues /\ TopValues # {Len(read)}

(* The walk tells ambiguous documents from others exactly.                 *)
WalkExact == Unambiguous /\ NoFalseAlarm
=============================================================================

------------------------------- MODULE LLMReply -------------------------------
(* Every reply an LLM may write, token by token, and every message that is     *)
(* matched by keywords, word by word, against what IntentParser makes of them. *)
EXTENDS IntentParser

CONSTANT MaxReply       \* tokens of a reply

VARIABLES
    raw,        \* the reply so far
    text        \* the words of the message so far

vars == <<raw, text>>

Init == raw = <<>> /\ text = {}

Write(t) ==
    /\ Len(raw) < MaxReply
    /\ raw' = Append(raw, t)
    /\ UNCHANGED text

Say(w) ==
    /\ raw = <<>>
    /\ text' = text \cup WithParts(w)
    /\ UNCHANGED raw

Next ==
    \/ text = {} /\ \E t \in Pieces : Write(t)
    \/ \E w \in Words \ text : Say(w)

Spec == Init /\ [][Next]_vars

-------------------------------------------------------------------------------
(* An object that is all the reply has of braces is understood if nothing but  *)
(* white space comes between it and the end, or the ticks that close its       *)
(* ```json block, whatever prose comes before (intent_parser.go:8-14).         *)
LoneObjectUnderstood ==
    \A k \in Closing(raw) :
        LET after  == {n \in DOMAIN raw : n > k} \ Positions(raw, {"space"})
            fences == Positions(raw, {"fence"})
            closed == /\ fences # {} /\ Min(fences) < k
                      /\ Min(after) \in Ends(raw)
        IN  Braces(raw) = {k} /\ (after = {} \/ closed) =>
                parseIntent(raw) = raw[k].intent

(* What the server executes is an object of the reply, as it stands there, and *)
(* it is the reply's only complete one; of several, it is the one that has the *)
(* braces to itself between the first ```json and an end of a block behind it, *)
(* or of the reply (intent_parser.go:15-62).                                   *)
ExecutesTheOnlyOne ==
    parseIntent(raw) # NoIntent =>
        \E k \in Closing(raw) :
            /\ parseIntent(raw) = raw[k].intent
            /\ \/ Closing(raw) = {k}
               \/ \E f \in Positions(raw, {"fence"}), e \in Ends(raw) \cup {Len(raw) + 1} :
                     /\ f = Min(Positions(raw, {"fence"}))
                     /\ Braces(raw) \cap f..e = {k}

(* Without an LLM: an appliance named behind its verb, and no lamp, is the one *)
(* that is meant, and is not switched the other way, although the generic      *)
(* verbs match too (llm_client.go:233-263, in the order of the cases).         *)
WordsRespected ==
    \A a \in DOMAIN Naming :
        LET ons  == text \cap Naming[a].on
            offs == text \cap Naming[a].off
            i    == fallbackIntent(text)
        IN  text \subseteq ons \cup offs \cup {"on", "off"} =>
              /\ ons \cup offs # {} => i.target = a
              /\ ons # {} /\ offs = {} => i.action \in {"turn_on", "open"}
              /\ offs # {} /\ ons = {} => i.action \in {"turn_off", "close"}
===============================================================================

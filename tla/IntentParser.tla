----------------------------- MODULE IntentParser -----------------------------
(* What the server makes of the LLM's reply (service/intent_parser.go), and of *)
(* a message when it has no LLM (fallbackIntent of client/llm_client.go).      *)
(*                                                                             *)
(* A reply is a sequence of tokens: a complete JSON object, which carries an   *)
(* intent or lacks an action; a "{" that is never closed; the fence ```json;   *)
(* the ticks ``` of another block or of the end of one; white space; prose     *)
(* without braces.                                                             *)
EXTENDS Naturals, Sequences, FiniteSetsExt

CONSTANTS
    Devices,            \* row ids of the table, as naturals
    Rooms, Types,
    Unnamed             \* no device or no room in an intent

(* params of an intent, and its target type. *)
Intents == [dev : Devices \cup {Unnamed}, room : Rooms \cup {Unnamed},
            type : Types]
NoIntent == [dev |-> Unnamed, room |-> Unnamed]

Piece(kind, i) == [kind |-> kind, intent |-> i]
Objects == {Piece("object", i) : i \in Intents \cup {NoIntent}}
Pieces  == Objects \cup
           {Piece(k, NoIntent) : k \in {"open", "fence", "ticks", "space", "prose"}}

-------------------------------------------------------------------------------
Positions(raw, kinds) == {k \in DOMAIN raw : raw[k].kind \in kinds}
Braces(raw) == Positions(raw, {"object", "open"})
Ends(raw)   == Positions(raw, {"fence", "ticks"})   \* ```json begins with ```

TrimSpace(raw) ==
    LET solid == DOMAIN raw \ Positions(raw, {"space"}) IN
    IF solid = {} THEN <<>> ELSE SubSeq(raw, Min(solid), Max(solid))

(* From the first brace after the first fence to the next ticks. *)
Fenced(raw) ==
    LET found == {k \in Braces(raw) : k > Min(Positions(raw, {"fence"}))}
        stop  == {k \in Ends(raw) : k > Min(found)}
    IN  CASE found = {} -> raw
          [] found # {} /\ stop = {} -> SubSeq(raw, Min(found), Len(raw))
          [] OTHER -> TrimSpace(SubSeq(raw, Min(found), Min(stop) - 1))

(* From the first "{" to the last "}"; and to the first one. *)
Closing(raw) == Positions(raw, {"object"})
ToFirstBrace(raw) ==
    IF Closing(raw) = {} THEN raw
    ELSE SubSeq(raw, Min(Braces(raw)), Min(Closing(raw)))
Outermost(raw) ==
    IF Closing(raw) = {} THEN raw
    ELSE SubSeq(raw, Min(Braces(raw)), Max(Closing(raw)))

(* extractJSON, and without its second and third strategies. *)
ExtractPlain(text) == TrimSpace(text)
extractJSON(text) ==
    LET raw == TrimSpace(text) IN
    CASE 1 \in Braces(raw) -> raw
      [] 1 \notin Braces(raw) /\ Positions(raw, {"fence"}) # {} -> Fenced(raw)
      [] OTHER -> Outermost(raw)

(* json.Unmarshal takes one object with white space around it; an object       *)
(* without action is no intent.                                                *)
parseIntent(text) ==
    LET json == TrimSpace(extractJSON(text)) IN
    IF Len(json) = 1 /\ json[1].kind = "object" THEN json[1].intent
                                                ELSE NoIntent

-------------------------------------------------------------------------------
(* fallbackIntent.  What matters of a message is which words it contains: on   *)
(* and off, the lamp, and verbs directly followed by another appliance.        *)
Naming == [aircon  |-> [on |-> {"on_aircon"},  off |-> {"off_aircon"}],
           curtain |-> [on |-> {"on_curtain"}, off |-> {"off_curtain", "draw_curtain"}]]
Words  == {"on", "off", "lamp", "degrees"} \cup
          UNION {Naming[a].on \cup Naming[a].off : a \in DOMAIN Naming}

(* The words that come with a word: "on" is a part of "on_aircon". *)
WithParts(w) ==
    CASE w \in {"on_aircon", "on_curtain"}   -> {w, "on"}
      [] w \in {"off_aircon", "off_curtain"} -> {w, "off"}
      [] OTHER -> {w}

Rule(needs, action, target) ==
    [needs |-> needs, action |-> action, target |-> target]
Rules == <<
    Rule({"on", "lamp"},     "turn_on",  "light"),
    Rule({"off", "lamp"},    "turn_off", "light"),
    Rule({"on_aircon"},      "turn_on",  "aircon"),
    Rule({"off_aircon"},     "turn_off", "aircon"),
    Rule({"on_curtain"},     "open",     "curtain"),
    Rule({"off_curtain"},    "close",    "curtain"),
    Rule({"draw_curtain"},   "close",    "curtain"),
    Rule({"degrees"},        "set_temp", "aircon"),
    Rule({"on"},             "turn_on",  "light"),
    Rule({"off"},            "turn_off", "light"),
    Rule({},                 "unknown",  "unknown") >>

FirstOf(rules, w) == rules[Min({k \in DOMAIN rules : rules[k].needs \subseteq w})]
GenericFirst(w) == FirstOf(SubSeq(Rules, 9, 10) \o Rules, w)
fallbackIntent(w) == FirstOf(Rules, w)

===============================================================================

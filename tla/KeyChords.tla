------------------------------- MODULE KeyChords -------------------------------
(***************************************************************************)
(* The notation for keys, "CTRL+LSHIFT+A", and its two readers: hw.bind,   *)
(* which binds every combination of held modifiers that a text stands for, *)
(* and hw.input.send, which presses one.  A text is the sequence of its    *)
(* tokens, trimmed and in upper case.                                      *)
(***************************************************************************)
EXTENDS Integers, FiniteSets, SequencesExt

CONSTANTS
  Generics,   \* families of modifiers that texts name without a side
  Concretes,  \* tokens of one side that texts use
  Names,      \* names of keys that texts use
  MaxTokens,  \* bound: tokens of a text
  MaxChords   \* bound: texts bound or sent

ASSUME ChordAssumption ==
  /\ Generics \subseteq {"SHIFT", "CTRL", "ALT"}
  /\ Concretes \subseteq {"LSHIFT", "RSHIFT", "LCTRL", "RCTRL", "LALT", "RALT"}
  /\ Names \subseteq {"A", "RETURN", "ENTER", "PAUSE"}
  /\ {MaxTokens, MaxChords} \subseteq Nat

Modifier == {"LSHIFT", "RSHIFT", "LCTRL", "RCTRL", "LALT", "RALT"}
Family == [SHIFT |-> {"LSHIFT", "RSHIFT"}, CTRL |-> {"LCTRL", "RCTRL"}, ALT |-> {"LALT", "RALT"}]

\* One name of each sort in the table of names: a letter, a key with two names, a
\* key that FormatKeyEvent has no name for.
NamedKey == [A |-> "VK_A", RETURN |-> "VK_RETURN", ENTER |-> "VK_RETURN", PAUSE |-> "VK_PAUSE"]
Key == {NamedKey[name] : name \in DOMAIN NamedKey}

WinTokens == {"SUPER"}   \* SUPER, WIN, LWIN and their right-hand forms
Token == Generics \cup Concretes \cup Names \cup WinTokens \cup {"", "NONSENSE"}
Repeated(m, n, name) == [i \in 1..n |-> m] \o <<name>>
LongText == {Repeated(m, n, name) : n \in 7..9, m \in Generics, name \in Names}
Text == (BoundedSeq(Token, MaxTokens) \ {<<>>}) \cup LongText

Event == [vk : {NamedKey[name] : name \in Names}, modifiers : SUBSET Modifier]

VARIABLES
  binds,   \* m_binds: each bound event with the number of the call of hw.bind that bound it
  texts,   \* history: the texts bound, in order
  sent     \* history: the last text sent and its inputs

-------------------------------------------------------------------------------
\* ParseKeyBinding

NoKey == "0"
Invalid == [vk |-> "error", concrete |-> {}, generic |-> {}]
Empty == [vk |-> NoKey, concrete |-> {}, generic |-> {}]

ApplyToken(parsed, token) ==
  IF parsed = Invalid THEN Invalid
  ELSE CASE token \in DOMAIN Family   -> [parsed EXCEPT !.generic = @ \cup {token}]
         [] token \in Modifier        -> [parsed EXCEPT !.concrete = @ \cup {token}]
         [] token \in DOMAIN NamedKey /\ parsed.vk = NoKey -> [parsed EXCEPT !.vk = NamedKey[token]]
         [] OTHER                     -> Invalid   \* unknown, empty, or a second key

\* Mutant: a generic modifier means its left key.
ExpandLeft(parsed) ==
  {[vk |-> parsed.vk,
    modifiers |-> parsed.concrete \cup
                    {m \in {"LSHIFT", "LCTRL", "LALT"} : \E f \in parsed.generic : m \in Family[f]}]}

\* One event for every choice of a side for each generic modifier
ExpandGeneric(parsed) ==
  {[vk |-> parsed.vk, modifiers |-> parsed.concrete \cup {side[f] : f \in parsed.generic}] :
     side \in {s \in [parsed.generic -> Modifier] : \A f \in parsed.generic : s[f] \in Family[f]}}

\* The events of a text, none if it is refused
ParseKeyBinding(text) ==
  LET parsed == FoldLeft(ApplyToken, Empty, text)
  IN  IF parsed.vk \in Key THEN ExpandGeneric(parsed) ELSE {}

\* Mutant: the modifiers are named by family.
FormatByFamily(event) ==
  SelectSeq(<<"SHIFT", "CTRL", "ALT">>, LAMBDA f : Family[f] \cap event.modifiers # {})
    \o <<CHOOSE name \in DOMAIN NamedKey : NamedKey[name] = event.vk>>

\* The text of an event: the modifiers in a fixed order, then the key, which is
\* "VK_" and its number if it has no name.
Named(modifier, event) == IF modifier \in event.modifiers THEN <<modifier>> ELSE <<>>

FormatKeyEvent(event) ==
  Named("LSHIFT", event) \o Named("RSHIFT", event) \o Named("LCTRL", event)
    \o Named("RCTRL", event) \o Named("LALT", event) \o Named("RALT", event)
    \o <<CASE event.vk = "VK_A"      -> "A"
           [] event.vk = "VK_RETURN" -> "RETURN"
           [] OTHER                  -> "VK_13">>

\* hwBind and BindRegistry::Add for each event; a text that is refused raises an error
Bind(text) ==
  LET events == ParseKeyBinding(text)
      n == Len(texts) + 1
  IN  /\ binds' = [e \in DOMAIN binds \cup events |-> IF e \in events THEN n ELSE binds[e]]
      /\ texts' = Append(texts, text)
      /\ UNCHANGED sent

-------------------------------------------------------------------------------
\* hw.input.send

SendModifier == [SUPER |-> "LWIN", SHIFT |-> "LSHIFT", CTRL |-> "LCTRL", ALT |-> "LALT"]
ModifierVk(token) == IF token \in DOMAIN SendModifier THEN SendModifier[token] ELSE token
IsSendModifier(token) == token \in DOMAIN SendModifier \cup Modifier

Down(vk) == [vk |-> vk, up |-> FALSE]
Up(vk)   == [vk |-> vk, up |-> TRUE]
Each(Input(_), vks) == [i \in DOMAIN vks |-> Input(vks[i])]

\* Mutant: the loop that releases the modifiers ends at i > 0.
InputsShort(modifiers, key) ==
  Each(Down, modifiers) \o <<Down(key), Up(key)>>
    \o Each(Up, Reverse(SubSeq(modifiers, 2, Len(modifiers))))

Inputs(modifiers, key) ==
  Each(Down, modifiers) \o <<Down(key), Up(key)>> \o Each(Up, Reverse(modifiers))

ModifierLimit == 8     \* modifiers[8]
InputLimit == 18       \* inputs[18]

\* The loop over the tokens
Unread == [modifiers |-> <<>>, key |-> NoKey]
Refused == [modifiers |-> <<>>, key |-> "error"]

ReadToken(read, token) ==
  IF read = Refused THEN Refused
  ELSE CASE IsSendModifier(token) /\ Len(read.modifiers) < ModifierLimit ->
              [read EXCEPT !.modifiers = Append(@, ModifierVk(token))]
         [] token \in DOMAIN NamedKey /\ read.key = NoKey ->
              [read EXCEPT !.key = NamedKey[token]]
         [] OTHER -> Refused   \* unknown, empty, a second key, or a ninth modifier

\* The inputs of a text, none if it is refused
InputSend(text) ==
  LET read == FoldLeft(ReadToken, Unread, text)
  IN  IF read.key \in Key THEN Inputs(read.modifiers, read.key) ELSE <<>>

\* One call of SendInput.  Windows takes all of them or, for a protected window, none.
Send(text) ==
  /\ sent' = [text |-> text, inputs |-> InputSend(text)]
  /\ UNCHANGED <<binds, texts>>

chordsVars == <<binds, texts, sent>>

ChordsInit == binds = <<>> /\ texts = <<>> /\ sent = [text |-> <<>>, inputs |-> <<>>]

Bindable == {text \in Text : ParseKeyBinding(text) # {}}
Sendable == {text \in Text : InputSend(text) # <<>>}

ChordsNext ==
  /\ sent.text = <<>>
  /\ \/ Len(texts) < MaxChords /\ \E text \in Bindable : Bind(text)
     \/ texts = <<>> /\ \E text \in Sendable : Send(text)

-------------------------------------------------------------------------------
\* What a text stands for, said of the modifiers that are held: those it names
\* by side, exactly one of each other family it names, and no more.
StandsFor(text, event) ==
  LET named == ToSet(text) IN
    /\ \E name \in named \cap DOMAIN NamedKey : NamedKey[name] = event.vk
    /\ \A f \in DOMAIN Family :
         LET held == Family[f] \cap event.modifiers
             sided == Family[f] \cap named
         IN  /\ sided \subseteq held
             /\ IF f \in named THEN held # {} /\ \E m \in held : held \subseteq sided \cup {m}
                ELSE held = sided

\* A key press runs the callback of the latest bind whose text stands for it, and
\* none if there is no such bind: whichever binds overlap and replace each other
\* in part, as hw.bind("CTRL+A") and hw.bind("RCTRL+A") do.
LatestBindRuns ==
  \A event \in Event :
    LET matching == {i \in DOMAIN texts : StandsFor(texts[i], event)} IN
      IF matching = {} THEN event \notin DOMAIN binds
      ELSE event \in DOMAIN binds /\ binds[event] \in matching
             /\ \A i \in matching : i <= binds[event]

NamesBind ==
  \A event \in DOMAIN binds :
    ParseKeyBinding(FormatKeyEvent(event)) =
      IF Last(FormatKeyEvent(event)) \in DOMAIN NamedKey THEN {event} ELSE {}

\* How often a key is down after the first n inputs
HeldAfter(vk, inputs, n) ==
  Cardinality({i \in 1..n : inputs[i] = Down(vk)}) - Cardinality({i \in 1..n : inputs[i] = Up(vk)})

\* hw.input.send releases every key as often as it presses it, never more than it
\* has pressed it, within the array; and holds, while the key goes down, modifiers for
\* which hw.bind of the same text would run.
SentIsBalanced ==
  LET inputs == sent.inputs
      vks == {inputs[i].vk : i \in DOMAIN inputs}
      held(n) == {vk \in vks : HeldAfter(vk, inputs, n) > 0}
  IN  inputs # <<>> =>
        /\ Len(inputs) <= InputLimit
        /\ \A vk \in vks : HeldAfter(vk, inputs, Len(inputs)) = 0
                           /\ \A n \in DOMAIN inputs : HeldAfter(vk, inputs, n) >= 0
        /\ \E n \in DOMAIN inputs :
             /\ inputs[n].vk \in Key /\ ~inputs[n].up
             /\ ToSet(sent.text) \cap WinTokens = {} =>
                  [vk |-> inputs[n].vk, modifiers |-> held(n) \ Key] \in ParseKeyBinding(sent.text)
===============================================================================

----------------------------- MODULE Keyboard ------------------------------
(***************************************************************************)
(* The scan code decoder (kernel/keyboard.c, keyboard_irq): one interrupt  *)
(* per byte, with the prefix flag and the modifier bits kept in between.   *)
(*                                                                         *)
(* The keyboard sends the bytes of a key one after the other; they wait in *)
(* the controller until the interrupt is taken.  Of the tables of keys and *)
(* characters a few representative rows are kept: a letter, a digit with   *)
(* its shifted symbol, an arrow key, and all modifiers.                    *)
(***************************************************************************)
EXTENDS Integers, Sequences

CONSTANTS Keys,     \* the keys of the keyboard, out of DOMAIN Code
          WIRE_MAX  \* bound on the bytes waiting when a key follows another undecoded one

(* Set-1 scan codes: prefix and code of each key.                          *)
Code == [LEFT_SHIFT |-> <<42>>,      RIGHT_SHIFT |-> <<54>>,
         LEFT_CTRL  |-> <<29>>,      RIGHT_CTRL  |-> <<224, 29>>,
         LEFT_ALT   |-> <<56>>,      RIGHT_ALT   |-> <<224, 56>>,
         CAPS_LOCK  |-> <<58>>,      A           |-> <<30>>,
         KEY_1      |-> <<2>>,       LEFT        |-> <<224, 75>>,
         PAUSE      |-> <<225, 29, 69, 225, 157, 197>>]

(* The assumption on the constants, for the module that instantiates this. *)
KeyboardConstants == Keys \subseteq DOMAIN Code /\ WIRE_MAX \in Nat

(* The modifier a key stands for; CAPS is toggled, the others are held.    *)
Kind == [LEFT_SHIFT |-> "SHIFT", RIGHT_SHIFT |-> "SHIFT", LEFT_CTRL |-> "CTRL",
         RIGHT_CTRL |-> "CTRL", LEFT_ALT |-> "ALT", RIGHT_ALT |-> "ALT"]

KeysOf(kind) == {k \in Keys \intersect DOMAIN Kind : Kind[k] = kind}

VARIABLES
  modifiers, extended,
  event,   \* what the last interrupt passed to input_push
  wire,    \* the bytes waiting, each tagged with the key event it belongs to
  down,    \* the keys the user holds down
  (* History variables. *)
  seen,    \* the keys down according to the bytes decoded
  caps,    \* an odd number of Caps Lock make codes was decoded
  clipped  \* the kinds whose bit another key's release cleared: see keyboard_irq

vars == <<modifiers, extended, event, wire, down, seen, caps, clipped>>

NoKeyEvent == [key |-> "NONE", pressed |-> FALSE, modifiers |-> {}, character |-> ""]

-----------------------------------------------------------------------------
(* The user.  Break codes have bit 7 of the last byte set; PAUSE sends     *)
(* both at once.  A key held down repeats its make code.                   *)

Bytes(k, press) ==
  LET c == Code[k]
  IN  [i \in 1 .. Len(c) |->
         [byte  |-> IF i = Len(c) /\ ~press THEN c[i] + 128 ELSE c[i],
          first |-> i = 1, last |-> i = Len(c), key |-> k, press |-> press]]

Send(k, press) ==
  /\ wire = << >> \/ Len(wire) + Len(Code[k]) <= WIRE_MAX
  /\ wire' = wire \o Bytes(k, press)
  /\ UNCHANGED <<modifiers, extended, event, seen, caps, clipped>>

Press(k)   == k \notin down /\ Send(k, TRUE)
              /\ down' = IF k = "PAUSE" THEN down ELSE down \union {k}
Release(k) == k \in down /\ Send(k, FALSE) /\ down' = down \ {k}
Repeat(k)  == k \in down /\ Send(k, TRUE)  /\ down' = down

-----------------------------------------------------------------------------
(* The decoder.                                                            *)

(* key_for_scancode and extended_key.                                      *)
KeyFor(code) == CASE code = 58 -> "CAPS_LOCK" [] code = 30 -> "A" [] code = 2 -> "KEY_1"
                  [] OTHER -> "NONE"
ExtendedKey(code) == IF code = 75 THEN "LEFT" ELSE "NONE"

(* Mutant of Character: Caps Lock acts on digits like Shift.               *)
CharacterCaps(key, mods) ==
  CASE key = "A"     -> IF ("SHIFT" \in mods) # ("CAPS" \in mods) THEN "A" ELSE "a"
    [] key = "KEY_1" -> IF mods \intersect {"SHIFT", "CAPS"} # {} THEN "!" ELSE "1"
    [] OTHER         -> ""

(* key_character, overridden by scancode_character, then upper case when   *)
(* exactly one of Shift and Caps Lock is on.                               *)
Character(key, mods) ==
  CASE key = "A"     -> IF ("SHIFT" \in mods) # ("CAPS" \in mods) THEN "A" ELSE "a"
    [] key = "KEY_1" -> IF "SHIFT" \in mods THEN "!" ELSE "1"
    [] OTHER         -> ""

(* The modifier key a code stands for, if any.                             *)
ModifierKey(code) ==
  CASE ~extended /\ code = 42 -> "LEFT_SHIFT"
    [] ~extended /\ code = 54 -> "RIGHT_SHIFT"
    [] code = 29 -> IF extended THEN "RIGHT_CTRL" ELSE "LEFT_CTRL"
    [] code = 56 -> IF extended THEN "RIGHT_ALT" ELSE "LEFT_ALT"
    [] OTHER -> "NONE"

(* 0xE0 announces an extended code, 0xE1 the Pause sequence.               *)
PrefixByte(byte) ==
  /\ byte \in {224, 225}
  /\ extended' = (byte = 224)
  /\ event' = NoKeyEvent /\ UNCHANGED modifiers

(* Mutant of ModifierByte: a repeated make code toggles the modifier.      *)
ModifierByteToggles(byte) ==
  LET key == ModifierKey(byte % 128)
  IN  /\ byte \notin {224, 225} /\ key # "NONE"
      /\ modifiers' = IF Kind[key] \in modifiers THEN modifiers \ {Kind[key]}
                      ELSE modifiers \union {Kind[key]}
      /\ event' = [key |-> key, pressed |-> byte < 128, modifiers |-> modifiers',
                   character |-> ""]
      /\ extended' = FALSE

ModifierByte(byte) ==
  LET key == ModifierKey(byte % 128)
  IN  /\ byte \notin {224, 225} /\ key # "NONE"
      /\ modifiers' = IF byte >= 128 THEN modifiers \ {Kind[key]}
                      ELSE modifiers \union {Kind[key]}
      /\ event' = [key |-> key, pressed |-> byte < 128, modifiers |-> modifiers',
                   character |-> ""]
      /\ extended' = FALSE

Toggled(S, m) == IF m \in S THEN S \ {m} ELSE S \union {m}

(* Mutant of OrdinaryByte: the prefix is not forgotten after the key.      *)
OrdinaryByteSticky(byte) ==
  LET code    == byte % 128
      pressed == byte < 128
      key     == IF extended THEN ExtendedKey(code) ELSE KeyFor(code)
  IN  /\ byte \notin {224, 225} /\ ModifierKey(code) = "NONE"
      /\ modifiers' = IF key = "CAPS_LOCK" /\ pressed THEN Toggled(modifiers, "CAPS")
                      ELSE modifiers
      /\ event' = IF key = "NONE" THEN NoKeyEvent
                  ELSE [key |-> key, pressed |-> pressed, modifiers |-> modifiers,
                        character |-> IF pressed THEN Character(key, modifiers') ELSE ""]
      /\ UNCHANGED extended

OrdinaryByte(byte) ==
  LET code    == byte % 128
      pressed == byte < 128
      key     == IF extended THEN ExtendedKey(code) ELSE KeyFor(code)
  IN  /\ byte \notin {224, 225} /\ ModifierKey(code) = "NONE"
      /\ modifiers' = IF key = "CAPS_LOCK" /\ pressed THEN Toggled(modifiers, "CAPS")
                      ELSE modifiers
      /\ event' = IF key = "NONE" THEN NoKeyEvent
                  ELSE [key |-> key, pressed |-> pressed, modifiers |-> modifiers,
                        character |-> IF pressed THEN Character(key, modifiers') ELSE ""]
      /\ extended' = FALSE

(* The history of the byte h.  One bit stands for two keys, so the release *)
(* of one clears it while the other is held, and Pause, which ends in the  *)
(* break code of a left Ctrl key, does so to the Ctrl keys held.           *)
Noted(h) ==
  /\ seen' = IF ~h.last \/ h.key = "PAUSE" THEN seen
             ELSE IF h.press THEN seen \union {h.key} ELSE seen \ {h.key}
  /\ caps' = IF h.key = "CAPS_LOCK" /\ h.press THEN ~caps ELSE caps
  /\ clipped' = LET kind  == IF h.key = "PAUSE" THEN "CTRL" ELSE Kind[h.key]
                    break == h.key = "PAUSE" \/ ~h.press
                IN  IF ~h.last \/ h.key \notin DOMAIN Kind \union {"PAUSE"} THEN clipped
                    ELSE IF break /\ KeysOf(kind) \intersect seen' # {}
                         THEN clipped \union {kind} ELSE clipped \ {kind}

keyboard_irq ==
  /\ wire # << >> /\ wire' = Tail(wire)
  /\ LET h == Head(wire)
     IN  /\ PrefixByte(h.byte) \/ ModifierByte(h.byte) \/ OrdinaryByte(h.byte)
         /\ Noted(h)
  /\ UNCHANGED down

Init ==
  /\ modifiers = {} /\ extended = FALSE /\ event = NoKeyEvent
  /\ wire = << >> /\ down = {} /\ seen = {} /\ caps = FALSE /\ clipped = {}

Next == \/ \E k \in Keys : Press(k) \/ Release(k) \/ Repeat(k)
        \/ keyboard_irq

Spec == Init /\ [][Next]_vars

-----------------------------------------------------------------------------
(* No byte of a key is waiting whose earlier bytes have been decoded.      *)
BetweenKeys == wire = << >> \/ Head(wire).first

(* Between keys the modifier bits say exactly this much: a bit is set when *)
(* a key of its kind is held and, since the last make code of the kind, no *)
(* other key of it was released (and, for CTRL, Pause was not typed); CAPS *)
(* counts the Caps Lock make codes.                                        *)
ModifiersFollowKeys ==
  BetweenKeys =>
    /\ \A kind \in {"SHIFT", "CTRL", "ALT"} :
         (kind \in modifiers) = (KeysOf(kind) \intersect seen # {} /\ kind \notin clipped)
    /\ ("CAPS" \in modifiers) = caps

(* A step that decodes the last byte of a key reports that very key.       *)
(* Nothing is said of Pause, whose bytes the decoder takes for others.     *)
NamesKey ==
  wire # << >> /\ wire' = Tail(wire) /\ Head(wire).last /\ Head(wire).key # "PAUSE"
    => event'.key = Head(wire).key /\ event'.pressed = Head(wire).press

(* A step that decodes a letter or a digit yields the character for shift  *)
(* and the Caps Lock presses counted so far.                               *)
CharacterFor(shift) ==
  wire' # wire /\ event'.pressed =>
    /\ event'.key = "A" => event'.character = IF shift # caps THEN "A" ELSE "a"
    /\ event'.key = "KEY_1" => event'.character = IF shift THEN "!" ELSE "1"

ShiftSeen == seen \intersect {"LEFT_SHIFT", "RIGHT_SHIFT"} # {}
RightCharacter == CharacterFor(ShiftSeen /\ "SHIFT" \notin clipped)
=============================================================================

------------------------------ MODULE IcqWhois ------------------------------
(***************************************************************************)
(* /WHOIS (fe-common/fe-icq.c) and the status codes behind it (modestring  *)
(* and parse_away_mode of core/icq-buddy.c), over every contact list that  *)
(* IcqBuddy can reach.  The command only reads the list, so it is an       *)
(* operator: the set of lines that it prints.                              *)
(***************************************************************************)
EXTENDS IcqBuddy

CONSTANTS
  Numerals,    \* the strings that strtol reads to their end, in base 0: "42", "0x10", "+3"
  Number       \* Number[s]: the int that the value of such a string becomes

ASSUME NumberAssumption == Number \in [Numerals -> Int] /\ OFFLINE \in Nat

(* away_modes and codes: the words of /AWAY and /WHOIS. *)
Codes == [online |-> 0, away |-> 1, na |-> 5, occ |-> 17, dnd |-> 19, ffc |-> 32,
          offline |-> OFFLINE]
Words == DOMAIN Codes

(* Anything that strtol reads to its end is a code as well, be it a number *)
(* of a user, an alias or neither; one beyond int may become negative.     *)
Mut_ParseWordAsZero(s) == IF s \in Words THEN Codes[s] ELSE 0
parse_away_mode(s) ==
  IF s \in Words THEN Codes[s] ELSE IF s \in Numerals THEN Number[s] ELSE -1

(* The text for a status: only the low byte counts, 219 being that of      *)
(* OFFLINE, and bit 0x100 adds "Invisible".                                *)
Label(low) ==
  CASE low = 219 -> "offline"
    [] low = 0 -> "online"
    [] low = 1 -> "away"
    [] low \in {2, 19} -> "do not disturb"
    [] low = 4 -> "N/A-licq"
    [] low = 5 -> "N/A"
    [] low = 17 -> "occupied"
    [] low = 32 -> "free for chat"
    [] OTHER -> "damn"
modestring(status) ==
  [text |-> Label(status % 256), invisible |-> (status \div 256) % 2 = 1]

(* printinfo: the line for a nick or number, or none when code_restrict is *)
(* a status other than the contact's.                                      *)
Mut_PrintOnlyEqual(nick, restrict) ==
  LET u == buddy_getuin(buddies, nick)
      code == buddy_getmode(buddies, u)
  IN  IF restrict # code THEN {}
      ELSE {[nick |-> buddy_getalias(buddies, u), uin |-> u, mode |-> modestring(code)]}
printinfo(nick, restrict) ==
  LET u == buddy_getuin(buddies, nick)
      code == buddy_getmode(buddies, u)
  IN  IF restrict >= 0 /\ restrict # code THEN {}
      ELSE {[nick |-> buddy_getalias(buddies, u), uin |-> u, mode |-> modestring(code)]}

PrintAll(restrict) == UNION {printinfo(u, restrict) : u \in Listed(buddies)}

(* cmd_whois without an argument, and with one. *)
WhoisAll == PrintAll(-2)
Mut_WhoisNickFirst(data) ==
  LET code == parse_away_mode(data)
  IN  IF code < 0 \/ (data \in Aliases /\ AliasEntries(buddies, data) # {})
      THEN printinfo(data, -1) ELSE PrintAll(code)
Whois(data) ==
  LET code == parse_away_mode(data)
  IN  IF code < 0 THEN printinfo(data, code) ELSE PrintAll(code)

-----------------------------------------------------------------------------
(* No alias in the list is the number of somebody else. *)
NumbersPlain ==
  \A i \in 1 .. Len(buddies), u \in Uins :
    Fold[buddies[i].alias] = Fold[u] => buddies[i].uin = u

(* /WHOIS lists every contact, with its number, current alias and mode, as *)
(* long as no alias is another contact's number: the loop of cmd_whois     *)
(* passes numbers to printinfo, which takes them for nicks.                *)
WhoisListsEveryone ==
  NumbersPlain =>
    WhoisAll = {[nick |-> buddy_getalias(buddies, u), uin |-> u,
                 mode |-> modestring(buddy_getmode(buddies, u))] : u \in Listed(buddies)}

(* Every argument of /WHOIS that is a status, and the status. *)
Statuses ==
  {<<w, Codes[w]>> : w \in Words} \cup
  {<<s, Number[s]>> : s \in {n \in Numerals \ Words : Number[n] >= 0}}

(* /WHOIS status shows exactly the contacts that the user was last told    *)
(* have it (of the others the stored mode is anything), through all that   *)
(* changes the list between the mode change and the command: entries that  *)
(* are shadowed, lists that are announced, saved and read again.  So it is *)
(* for every word and number, also one that is somebody's alias: whoever   *)
(* has it is shown for the status only.  As above, no alias may be another *)
(* contact's number.                                                       *)
WhoisAgreesWithTold ==
  NumbersPlain => \A s \in Statuses :
    {line.uin : line \in Whois(s[1])} \ silent =
      {u \in Listed(buddies) \ silent : told[u] = s[2]}
=============================================================================

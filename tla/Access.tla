------------------------------- MODULE Access -------------------------------
(***************************************************************************)
(* Who may see which environment (auth.go): users get patterns from their  *)
(* groups, and a pattern is matched against an environment's name.  A      *)
(* string is a sequence of characters, of which only the star is special.  *)
(***************************************************************************)
EXTENDS Naturals, Sequences

CONSTANTS Chars, Star

ASSUME StarAssumption == Star \in Chars

HasPrefix(s, t) == Len(t) <= Len(s) /\ SubSeq(s, 1, Len(t)) = t
HasSuffix(s, t) == Len(t) <= Len(s) /\ SubSeq(s, Len(s) - Len(t) + 1, Len(s)) = t

Stars(p) == {i \in 1..Len(p) : p[i] = Star}
FirstStar(p) == CHOOSE i \in Stars(p) : \A j \in Stars(p) : i <= j

(* The parts before and after the first star.                              *)
Before(p) == SubSeq(p, 1, FirstStar(p) - 1)
After(p)  == SubSeq(p, FirstStar(p) + 1, Len(p))

(* Faulty: a star at the end, or at the start, that must stand for some    *)
(* character.                                                              *)
matchPatternNonEmpty(p, name) ==
  \/ p = <<Star>>
  \/ Stars(p) = {} /\ p = name
  \/ Len(p) > 1 /\ p[Len(p)] = Star /\ HasPrefix(name, SubSeq(p, 1, Len(p) - 1))
     /\ Len(name) >= Len(p)
  \/ /\ Len(p) > 1 /\ p[Len(p)] # Star /\ p[1] = Star
     /\ HasSuffix(name, Tail(p)) /\ Len(name) > Len(p)
  \/ /\ Stars(p) # {} /\ p[Len(p)] # Star /\ p[1] # Star
     /\ HasPrefix(name, Before(p)) /\ HasSuffix(name, After(p))

(* A star at an end is looked for before one in the middle, and whatever   *)
(* other star is left is compared as a character.                          *)
matchPattern(p, name) ==
  \/ p = <<Star>>
  \/ Stars(p) = {} /\ p = name
  \/ Len(p) > 1 /\ p[Len(p)] = Star /\ HasPrefix(name, SubSeq(p, 1, Len(p) - 1))
  \/ /\ Len(p) > 1 /\ p[Len(p)] # Star /\ p[1] = Star
     /\ HasSuffix(name, Tail(p))
  \/ /\ Stars(p) # {} /\ p[Len(p)] # Star /\ p[1] # Star
     /\ HasPrefix(name, Before(p)) /\ HasSuffix(name, After(p))

CanAccessEnvironment(user, name) ==
  user.admin \/ \E p \in user.environments : matchPattern(p, name)

(* ValidateToken: the claims of the token, and the patterns of the groups  *)
(* the configuration has for its user now.                                 *)
UserOf(claims, groupsOf, patternsOf) ==
  [admin |-> claims.admin,
   environments |-> UNION {patternsOf[g] : g \in groupsOf[claims.sub] \cap DOMAIN patternsOf}]

-----------------------------------------------------------------------------
(* What the configuration's author is told of "wildcard patterns": that a  *)
(* star "matches any characters" (config.yaml.example:42).  Every star of  *)
(* the pattern stands for some stretch of the name: cut[s] is where the    *)
(* one of star s ends, and cut[0] where the name begins.  From there the   *)
(* name goes on like the pattern, up to the next star or the end.          *)
Glob(p, name) ==
  \E cut \in [{0} \cup Stars(p) -> 0..Len(name)] :
    /\ cut[0] = 0
    /\ \A s \in {0} \cup Stars(p), i \in 0..Len(p) :
         s <= i /\ (\A z \in Stars(p) : ~(s < z /\ z <= i)) =>
           LET end == cut[s] + (i - s)
           IN /\ end <= Len(name)
              /\ s < i => name[end] = p[i]
              /\ i + 1 \in Stars(p) => end <= cut[i + 1]
              /\ i = Len(p) => end = Len(name)
=============================================================================

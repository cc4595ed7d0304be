------------------------------ MODULE Numbers ------------------------------
(***************************************************************************)
(* The machine integers the program converts lengths and texts to.  Their  *)
(* limits are parameters, so that the wrap-around is reached with small    *)
(* numbers: the code has IntLimit = 2^31 and PortLimit = 2^16.             *)
(***************************************************************************)
EXTENDS Integers

CONSTANTS IntLimit,   \* one more than the largest int
          PortLimit   \* one more than the largest uint16_t

ASSUME LimitsAssumption == IntLimit \in Nat \ {0} /\ PortLimit \in Nat \ {0}

(* The conversion of a size_t to int: two's complement wrap-around. *)
ToInt(n) == LET r == n % (2 * IntLimit)
            IN  IF r < IntLimit THEN r ELSE r - 2 * IntLimit

(* The conversion of an int to uint16_t. *)
ToPort(n) == n % PortLimit
=============================================================================

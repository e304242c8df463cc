----------------------------- MODULE Expressions -----------------------------
(***************************************************************************)
(* Expressions for addresses and ports: AddressExpr and PortExpr of        *)
(* src/include/rules/rules.hpp, which rules and firewall rules share.      *)
(***************************************************************************)
EXTENDS Ipv4

(* An expression: any, or a list of ranges, either negated.                *)
(* Addresses may also list variables, which nothing ever resolves.  The    *)
(* ends of a range of ports are its first and its second component.        *)
AddressHit(expr, addr) == \E r \in Range(expr.ranges) : RangeContains(r, addr)
PortHit(expr, port)    == \E r \in Range(expr.ranges) : r[1] <= port /\ port <= r[2]

MatchesAddr(expr, addr) == (expr.any \/ AddressHit(expr, addr)) # expr.negated
MatchesPort(expr, port) == (expr.any \/ PortHit(expr, port)) # expr.negated

(* to_string: what is listed is all that is shown of "any" negated.        *)
Rendered(expr) ==
    LET everything == expr.any /\ ~expr.negated
    IN  [any |-> everything, negated |-> expr.negated,
         ranges |-> IF everything THEN << >> ELSE expr.ranges,
         variables |-> IF everything THEN << >> ELSE expr.variables]
=============================================================================

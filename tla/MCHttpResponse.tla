--------------------------- MODULE MCHttpResponse ---------------------------
(* Headers that fit, just fit and do not; bodies around the largest int of a *)
(* 16 value world; lengths that are right, short, long, absent, unreadable   *)
(* or beyond an unsigned int; a NUL at any place; replies cut off anywhere.  *)
EXTENDS HttpResponse

MCReplies ==
  {r \in [hlen : {2, HdrCap, HdrCap + 1}, body_len : {0, 1, 3, MaxInt, MaxInt + 2, W - 1},
          nuls : {{}} \cup {{p} : p \in 2 .. HdrCap + 2},
          sent : 0 .. (HdrCap + W),
          declared : {NoLength, NotANumber, 0, 2, 3, MaxInt, MaxInt + 2, W - 1, W + 1},
          status_ok : BOOLEAN] :
     /\ r.sent <= r.hlen + r.body_len
     /\ \A p \in r.nuls : r.hlen <= p /\ p < r.hlen + r.body_len
     /\ r.status_ok \/ (r.sent = r.hlen + r.body_len /\ r.nuls = {})}

\* The replies of servers that leave the length out, among others.
MCFewReplies ==
  {r \in MCReplies : r.hlen = 2 /\ r.body_len = 3 /\ r.sent = 5 /\ r.nuls = {} /\ r.status_ok}
=============================================================================

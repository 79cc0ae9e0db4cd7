---------------------------- MODULE MCTokenPool ----------------------------
(* Two workers and a propagation probe over two pool tokens and a fan      *)
(* user's, in runs that put every two of the actors against each other.    *)
EXTENDS TokenPool
Run(workers, tokens, mix, propagation, expiry, fan, targets) ==
  [workers |-> workers, tokens |-> tokens, mix |-> mix, propagation |-> propagation,
   expiry |-> expiry, fan |-> fan, targets |-> targets]
CONSTANTS w1, w2
MCConfigs == {
  Run({w1, w2}, 1, {"revoke", "issue"}, FALSE, TRUE, 0, <<>>),
  Run({w1}, 2, {"revoke", "issue"}, FALSE, TRUE, 0, <<>>),
  Run({w1}, 1, {"bad_token"}, TRUE, FALSE, 0, <<>>),
  Run({w1, w2}, 1, {"revoke", "bad_token", "probe"}, FALSE, FALSE, 0, <<>>),
  Run({w1}, 1, {"issue"}, TRUE, TRUE, 0, <<>>),
  Run({w1, w2}, 1, {"grant_churn"}, FALSE, FALSE, 0, <<>>),
  Run({w1}, 1, {"validate"}, FALSE, TRUE, 1, <<3>>)}
=============================================================================

----------------------------- MODULE MCInfoCmd -----------------------------
(* Instances of InfoCmd for TLC: command lines, and what programs call. *)
EXTENDS InfoCmd

\* The functions that main(), action_cb and the other program call.
InfoCalls ==
  {"info_tx_begin", "info_tx_READ", "info_tx_WRITE", "info_tx_SUB", "info_tx_UNSUB",
   "info_tx_commit", "info_readv", "info_loop", "info_close"}
InfoCallbacks == {"info_write", "info_cb_close"}

\* All keys, and one of the two.
AllOrSecond == {Keys, {2}}

r(k) == Do("r", Read(k))
w(k, v) == Do("w", Write(k, v))
d(k) == Do("d", Write(k, NONE))
s == Do("s", Sub(Keys))

\* Reads, writes and deletes; -A; -C, with and without -A; subscriptions that
\* wait, that time out and that do not wait; and an option that comes too late.
Lines ==
  { <<r(1), r(2)>>, <<w(1, CHOOSE v \in Values : TRUE), r(1), d(2)>>,
    <<Opt("A")>>, <<Opt("A"), Opt("C")>>, <<Opt("t"), Opt("C")>>,
    <<s, d(1)>>, <<Opt("t0"), Opt("t"), s>>, <<Opt("t0"), s, r(1)>>,
    <<r(1), Opt("A")>> }

=============================================================================

------------------------------ MODULE MCTxBuild ------------------------------
(***************************************************************************)
(* Inputs for TxBuild: one wallet secret and one bad hex string, an SDL    *)
(* and an order_id each built in two key orders (as a caller's YAML       *)
(* loader or dict literal may produce them), the default deposit and gas  *)
(* price, and the two account numbers the chain could assign.             *)
(***************************************************************************)
EXTENDS TxBuild

CONSTANTS k1, badHex, n1, n2

\* {"version": "2.0", "services": {...}} and the same keys the other way round.
MCSdls == { Dict(<< <<"version", Str("2.0")>>, <<"services", Str("web")>> >>),
            Dict(<< <<"services", Str("web")>>, <<"version", Str("2.0")>> >>) }

\* {"owner": ..., "dseq": ...} in both insertion orders.
MCOrderIds == { Dict(<< <<"owner", Str("akash1tenant")>>, <<"dseq", Str("7")>> >>),
                Dict(<< <<"dseq", Str("7")>>, <<"owner", Str("akash1tenant")>> >>) }

MCBidIds == { Dict(<< <<"owner", Str("akash1tenant")>>, <<"dseq", Str("7")>>,
                      <<"provider", Str("akash1provider")>> >>) }

\* "10000000uakt" and "1000uakt".
MCDeposits == { [digits |-> "10000000", denom |-> "uakt"] }
MCPrices == { [digits |-> "1000", denom |-> "uakt"] }

\* One key order each, for the runs about what a signature covers rather
\* than about key order.
MCSdlsOneOrder == { Dict(<< <<"version", Str("2.0")>>, <<"services", Str("web")>> >>) }
MCOrderIdsOneOrder == { Dict(<< <<"owner", Str("akash1tenant")>>, <<"dseq", Str("7")>> >>) }

MCValidKeys == {k1}
MCBadKeys == {badHex}
MCNonces == {n1, n2}
MCOneNonce == {n1}
=============================================================================

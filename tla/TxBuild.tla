------------------------------- MODULE TxBuild -------------------------------
(***************************************************************************)
(* The synchronous part of AkashTransactionSigner (transaction.py): the    *)
(* wallet import, the three message builders, create_transaction and      *)
(* sign_transaction with its two encoders, as a caller (create_deployment, *)
(* create_bid, create_lease in async_client.py) invokes them.              *)
(*                                                                         *)
(* JSON values are modelled by their structure: a dict is the sequence of *)
(* its (key, value) items in insertion order, as Python keeps it.          *)
(* json.dumps is modelled by what it does to that structure: it emits the *)
(* items in insertion order, or in key order with sort_keys=True, and it  *)
(* raises TypeError on a bytes value.  Text is a sequence of tokens.       *)
(* Hashes, base64 and bech32 are injective encodings, modelled as tagged   *)
(* tuples.  Fields the code fills with one constant in every transaction  *)
(* (timeout_height, extension options, mode_info, payer, granter) are left *)
(* out: they are encoded alike in every transaction.                       *)
(***************************************************************************)
EXTENDS Integers, Sequences, SequencesExt, TLC

CONSTANTS
    ValidKeys,      \* hex strings that decode to a secp256k1 secret
    BadKeys,        \* hex strings that do not
    Sdls,           \* SDL dicts the caller passes to create_deployment
    Deposits,       \* deposit strings, as [digits, denom]
    OrderIds,       \* order_id dicts the caller passes to create_bid
    Prices,         \* price strings, as [digits, denom]
    BidIds,         \* bid_id dicts the caller passes to create_lease
    AccNums,        \* account_number values _get_account_info may return
    Seqs,           \* sequence values _get_account_info may return
    GasLimits,      \* gas_limit arguments
    GasPriceMilli,  \* the signer's gas_price "0.025uakt", in thousandths
    ChainIds,       \* chain_id values of the clients the wallet signs through
    Nonces,         \* the ECDSA nonces signing_key.sign may draw
    SignDocEncodes, \* FALSE: the sign doc holds bytes, as in the code
    MaxSigns        \* bound on the signatures recorded

ASSUME SignDocEncodes \in BOOLEAN
ASSUME MaxSigns \in Nat

VARIABLES
    wallet,   \* the caller's Wallet, or NoWallet
    msg,      \* the last message built: [val, args]
    tx,       \* the last transaction dict: [val, args, info, gas, fee]
    signed,   \* the signatures produced so far, with what each one covers
    raised    \* the exception the last call raised, or "none"

vars == <<wallet, msg, tx, signed, raised>>

NoWallet == [priv |-> "none"]
NoMsg == [args |-> "none"]
NoTx == [args |-> "none"]

-----------------------------------------------------------------------------
(* JSON values and json.dumps.                                             *)

Str(s) == [t |-> "str", v |-> s]
Bytes(b) == [t |-> "bytes", v |-> b]
List(s) == [t |-> "list", v |-> s]
Dict(s) == [t |-> "dict", v |-> s]

\* Every key the encoded dicts use, in the order sort_keys puts them
\* (code-point order: '@' < '_' < 'a').
KeyOrder == <<"@type", "account_number", "amount", "auth_info",
    "auth_info_bytes", "bid_id", "body", "body_bytes", "chain_id", "denom",
    "deposit", "depositor", "dseq", "fee", "gas_limit", "groups", "id", "key",
    "memo", "messages", "name", "order", "owner", "price", "provider",
    "public_key", "requirements", "resources", "sequence", "services",
    "signatures", "signer_infos", "version">>

KeyRank(k) == CHOOSE i \in DOMAIN KeyOrder : KeyOrder[i] = k

KeyBefore(a, b) == KeyRank(a[1]) < KeyRank(b[1])

Lookup(d, k) == (CHOOSE p \in ToSet(d.v) : p[1] = k)[2]

\* 'd[k] = v' on a dict that has the key k.
SetItem(d, k, x) ==
    Dict([i \in DOMAIN d.v |-> IF d.v[i][1] = k THEN <<k, x>> ELSE d.v[i]])

\* json.dumps raises TypeError when it meets a bytes value.
RECURSIVE HasBytes(_)
HasBytes(x) ==
    CASE x.t = "bytes" -> TRUE
      [] x.t = "str"   -> FALSE
      [] x.t = "list"  -> \E i \in DOMAIN x.v : HasBytes(x.v[i])
      [] x.t = "dict"  -> \E i \in DOMAIN x.v : HasBytes(x.v[i][2])

\* json.dumps(x, sort_keys=sortKeys) of a value without bytes.
RECURSIVE Dumps(_, _)
Dumps(x, sortKeys) ==
    CASE x.t = "str"  -> <<x.v>>
      [] x.t = "list" ->
            <<"[">> \o FlattenSeq([i \in DOMAIN x.v |-> Dumps(x.v[i], sortKeys)])
                    \o <<"]">>
      [] x.t = "dict" ->
            LET items == IF sortKeys THEN SortSeq(x.v, KeyBefore) ELSE x.v
            IN <<"{">> \o FlattenSeq([i \in DOMAIN items |->
                              <<items[i][1]>> \o Dumps(items[i][2], sortKeys)])
                       \o <<"}">>

\* The logical content of a value: a dict as a function of its keys,
\* whatever order they were inserted in.
RECURSIVE Content(_)
Content(x) ==
    CASE x.t \in {"str", "bytes"} -> x.v
      [] x.t = "list" -> [i \in DOMAIN x.v |-> Content(x.v[i])]
      [] x.t = "dict" -> [k \in {x.v[i][1] : i \in DOMAIN x.v} |-> Content(Lookup(x, k))]

\* str() of an int, base64 of bytes: injective text encodings.
Decimal(n) == <<"decimal", n>>
B64(b) == <<"base64", b>>

-----------------------------------------------------------------------------
(* Wallet.                                                                 *)

\* The compressed secp256k1 point of a secret, and its bech32 'akash'
\* address of ripemd160(sha256(public key)).
PublicKey(k) == <<"secp256k1-compressed", k>>
Address(pub) == <<"bech32-akash", "ripemd160", "sha256", pub>>

FromPrivateKey(k) ==
    [priv |-> k, pub |-> PublicKey(k), address |-> Address(PublicKey(k))]

-----------------------------------------------------------------------------
(* The message builders and create_transaction.                            *)

\* amount.replace("uakt", ""): the digits when the denomination is uakt,
\* the text unchanged otherwise; nothing is validated.
AmountText(a) == IF a.denom = "uakt" THEN <<a.digits>> ELSE <<a.digits, a.denom>>

Coin(a) == Dict(<< <<"denom", Str("uakt")>>, <<"amount", Str(AmountText(a))>> >>)

\* _sdl_to_groups ignores the SDL and returns one fixed default group.
SdlToGroups(sdl) ==
    List(<< Dict(<< <<"name", Str("default")>>,
                    <<"requirements", Str("signed_by: none")>>,
                    <<"resources", Str("cpu 1000, memory 1Gi, storage 1Gi, count 1, price 1000uakt")>> >>) >>)

CreateDeploymentMsg(owner, sdl, deposit) ==
    Dict(<< <<"@type", Str("/akash.deployment.v1beta3.MsgCreateDeployment")>>,
            <<"id", Dict(<< <<"owner", Str(owner)>>, <<"dseq", Str("0")>> >>)>>,
            <<"groups", SdlToGroups(sdl)>>,
            <<"version", Str(B64(Dumps(sdl, FALSE)))>>,
            <<"deposit", Coin(deposit)>>,
            <<"depositor", Str(owner)>> >>)

CreateBidMsg(bidder, orderId, price) ==
    Dict(<< <<"@type", Str("/akash.market.v1beta4.MsgCreateBid")>>,
            <<"order", orderId>>,
            <<"provider", Str(bidder)>>,
            <<"price", Coin(price)>> >>)

CreateLeaseMsg(tenant, provider, bidId) ==
    Dict(<< <<"@type", Str("/akash.market.v1beta4.MsgCreateLease")>>,
            <<"bid_id", bidId>> >>)

\* int(x): truncation toward zero.
TruncDiv(a, b) == IF a >= 0 THEN a \div b ELSE -((-a) \div b)

\* gas_amount = int(float(self.gas_price.replace("uakt", "")) * gas_limit).
\* For "0.025" the double product truncates to (25 * gas_limit) // 1000 for
\* every |gas_limit| <= 2*10^6, so the float arithmetic adds no error here.
GasAmount(gas) == TruncDiv(GasPriceMilli * gas, 1000)

CreateTransaction(w, messages, info, gas) ==
    Dict(<< <<"body", Dict(<< <<"messages", List(messages)>>,
                              <<"memo", Str(info.memo)>> >>)>>,
            <<"auth_info", Dict(<<
                <<"signer_infos", List(<< Dict(<<
                    <<"public_key", Dict(<< <<"@type", Str("/cosmos.crypto.secp256k1.PubKey")>>,
                                           <<"key", Str(B64(w.pub))>> >>)>>,
                    <<"sequence", Str(Decimal(info.seq))>> >>) >>)>>,
                <<"fee", Dict(<<
                    <<"amount", List(<< Dict(<< <<"denom", Str("uakt")>>,
                                               <<"amount", Str(Decimal(GasAmount(gas)))>> >>) >>)>>,
                    <<"gas_limit", Str(Decimal(gas))>> >>)>> >>)>>,
            <<"signatures", List(<<>>)>> >>)

-----------------------------------------------------------------------------
(* sign_transaction.                                                       *)

\* _encode_body, _encode_auth_info: json.dumps(x, sort_keys=True).encode()
EncodeBody(body) == Bytes(Dumps(body, TRUE))
EncodeAuthInfo(authInfo) == Bytes(Dumps(authInfo, TRUE))

\* The sign doc holds the encoders' bytes as they are; a working encoder
\* would hold them as base64 text.
SignDocField(b) == IF SignDocEncodes THEN Str(B64(b.v)) ELSE b

\* Mutant: the sign doc leaves out account_number.
SignDocWithoutAccount(t, info) ==
    Dict(<< <<"body_bytes", SignDocField(EncodeBody(Lookup(t, "body")))>>,
            <<"auth_info_bytes", SignDocField(EncodeAuthInfo(Lookup(t, "auth_info")))>>,
            <<"chain_id", Str(info.chain)>> >>)

SignDoc(t, info) ==
    Dict(<< <<"body_bytes", SignDocField(EncodeBody(Lookup(t, "body")))>>,
            <<"auth_info_bytes", SignDocField(EncodeAuthInfo(Lookup(t, "auth_info")))>>,
            <<"chain_id", Str(info.chain)>>,
            <<"account_number", Str(Decimal(info.acc))>> >>)

\* What a signature must cover: the logical content of the body and of the
\* auth info, the chain and the account.
Covered(t) ==
    [body |-> Content(Lookup(t.val, "body")),
     auth |-> Content(Lookup(t.val, "auth_info")),
     chain |-> t.info.chain, acc |-> t.info.acc]

\* What the caller asked for: the builder's arguments up to key order,
\* the account fields, the gas limit and the wallet.
Requested(t) == [args |-> t.args, info |-> t.info, gas |-> t.gas, pub |-> wallet.pub]

-----------------------------------------------------------------------------
(* The caller's calls.                                                     *)

\* Wallet.from_private_key: a bad hex string or secret raises
\* AkashTransactionError.
ImportWallet ==
    /\ \E k \in ValidKeys \cup BadKeys :
         IF k \in ValidKeys
         THEN wallet' = FromPrivateKey(k) /\ raised' = "none"
         ELSE UNCHANGED wallet /\ raised' = "AkashTransactionError"
    /\ UNCHANGED <<msg, tx, signed>>

\* Wallet.from_mnemonic raises NotImplementedError.
FromMnemonic ==
    /\ raised' = "NotImplementedError"
    /\ UNCHANGED <<wallet, msg, tx, signed>>

BuildDeploymentMsg ==
    /\ wallet # NoWallet
    /\ \E sdl \in Sdls, deposit \in Deposits :
         msg' = [val |-> CreateDeploymentMsg(wallet.address, sdl, deposit),
                 args |-> <<"deployment", Content(sdl), deposit>>]
    /\ raised' = "none"
    /\ UNCHANGED <<wallet, tx, signed>>

BuildBidMsg ==
    /\ wallet # NoWallet
    /\ \E orderId \in OrderIds, price \in Prices :
         msg' = [val |-> CreateBidMsg(wallet.address, orderId, price),
                 args |-> <<"bid", Content(orderId), price>>]
    /\ raised' = "none"
    /\ UNCHANGED <<wallet, tx, signed>>

BuildLeaseMsg ==
    /\ wallet # NoWallet
    /\ \E bidId \in BidIds :
         msg' = [val |-> CreateLeaseMsg(wallet.address, wallet.address, bidId),
                 args |-> <<"lease", Content(bidId)>>]
    /\ raised' = "none"
    /\ UNCHANGED <<wallet, tx, signed>>

\* The caller's TransactionInfo(chain_id, account_number, sequence, fee={})
\* and create_transaction(wallet, [msg], tx_info, gas_limit).
AssembleTransaction ==
    /\ msg # NoMsg
    /\ \E chain \in ChainIds, acc \in AccNums, seq \in Seqs, gas \in GasLimits :
         LET info == [chain |-> chain, acc |-> acc, seq |-> seq, memo |-> ""]
         IN tx' = [val |-> CreateTransaction(wallet, <<msg.val>>, info, gas),
                   args |-> msg.args, info |-> info, gas |-> gas,
                   fee |-> GasAmount(gas)]
    /\ raised' = "none"
    /\ UNCHANGED <<wallet, msg, signed>>

\* sign_transaction: json.dumps of the sign doc (TypeError on bytes), its
\* sha256, an ECDSA signature with a random nonce, stored into
\* transaction["signatures"] in place.
SignTransaction ==
    /\ tx # NoTx
    /\ Len(signed) < MaxSigns
    /\ LET doc == SignDoc(tx.val, tx.info) IN
       IF HasBytes(doc)
       THEN /\ raised' = "TypeError"
            /\ UNCHANGED <<tx, signed>>
       ELSE \E n \in Nonces :
              LET signBytes == Dumps(doc, TRUE)
                  sig == <<"ecdsa", wallet.priv, <<"sha256", signBytes>>, n>>
              IN /\ tx' = [tx EXCEPT !.val =
                             SetItem(@, "signatures", List(<< Str(B64(sig)) >>))]
                 /\ signed' = Append(signed, [bytes |-> signBytes, sig |-> sig,
                                              covered |-> Covered(tx),
                                              requested |-> Requested(tx)])
                 /\ raised' = "none"
    /\ UNCHANGED <<wallet, msg>>

-----------------------------------------------------------------------------

Init ==
    /\ wallet = NoWallet
    /\ msg = NoMsg
    /\ tx = NoTx
    /\ signed = <<>>
    /\ raised = "none"

Next ==
    \/ ImportWallet \/ FromMnemonic
    \/ BuildDeploymentMsg \/ BuildBidMsg \/ BuildLeaseMsg
    \/ AssembleTransaction \/ SignTransaction

Spec == Init /\ [][Next]_vars

-----------------------------------------------------------------------------
(* Properties.                                                             *)

\* A signature pins down what it signs: two signatures over the same bytes
\* cover the same body, auth info (which holds the sequence), chain and
\* account, so a signature cannot be replayed for another account or
\* transaction.  This depends on sign_transaction putting every such field
\* in the sign doc and on the encoders being injective.
SignBytesBindTx ==
    \A i, j \in DOMAIN signed :
        signed[i].bytes = signed[j].bytes => signed[i].covered = signed[j].covered

\* The spec (4.4, 8) requires the signed bytes to be a canonical encoding,
\* fixed by the logical content whatever order the caller built its dicts
\* in: two transactions requested with the same arguments are signed over
\* the same bytes.
CanonicalSignBytes ==
    \A i, j \in DOMAIN signed :
        signed[i].requested = signed[j].requested => signed[i].bytes = signed[j].bytes

\* The spec (4.3) sets fee = ceil(gas_price * gas_limit) and requires a
\* positive gas_limit: every transaction create_transaction returns meets both.
FeeAsSpecified ==
    tx # NoTx =>
        /\ tx.gas > 0
        /\ tx.fee = (GasPriceMilli * tx.gas + 999) \div 1000

=============================================================================

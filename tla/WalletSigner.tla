----------------------------- MODULE WalletSigner -----------------------------
(* The browser signer of the SDK (sdk/src/signers): a Stellar Wallets Kit wallet *)
(* behind the interface of a signer.  It asks the wallet which network it is on  *)
(* before each request; the user may switch the wallet at any time, decline, or  *)
(* have several requests open, and wallets word their errors in several ways.    *)
EXTENDS Integers, Sequences

CONSTANTS
  Networks,            \* network passphrases
  NamedNetworks,       \* those known by a name too: testnet and the public network
  SignerOptions,       \* what WalletsKitSignerOptions may say
  Wallets,             \* the kinds of wallets
  MaxAsks              \* requests made

VARIABLES
  signer, wallet,
  walletNetwork,       \* the network the user has the wallet on
  asks                 \* the requests: how far each got and how it ended

walletVars == <<signer, wallet, walletNetwork, asks>>

\* getNetwork may be missing, fail, or tell nothing, the name or the passphrase; a
\* wallet signs for the network it is asked to, or for the one it is on.
WalletsKitLike ==
  [getNetwork : {"none", "fails", "nothing", "name", "passphrase"}, signAuthEntry : BOOLEAN,
   obeys : BOOLEAN]
WalletsKitSignerOptions == [networkPassphrase : Networks, checkNetwork : BOOLEAN]
ASSUME WalletAssumption ==
  /\ NamedNetworks \subseteq Networks
  /\ Wallets \subseteq WalletsKitLike /\ SignerOptions \subseteq WalletsKitSignerOptions

\* Errors of wallets.  They are taken for a user's refusal by their code, by their
\* name or by the words of their message.
WALLET_USER_REJECTED == -4
WalletErrors ==
  [code : {0, WALLET_USER_REJECTED}, name : {"Error", "UserRejected"},
   message : {"user declined", "request cancelled", "other"}]
isUserRejection(error) ==
  \/ error.code = WALLET_USER_REJECTED
  \/ error.name = "UserRejected"
  \/ error.message \in {"user declined", "request cancelled"}

\* What a wallet throws when its user declines, and when something else fails: a
\* request it gave up on has words that a refusal may have too.
Refusals == {e \in WalletErrors : e.code # 0 \/ e.name # "Error" \/ e.message = "user declined"}
Failures == {e \in WalletErrors : e.code = 0 /\ e.name = "Error" /\ e.message # "user declined"}
-----------------------------------------------------------------------------
Fresh(method, network) ==
  [method |-> method, network |-> network, at |-> "checking", switched |-> FALSE,
   user |-> "undecided", outcome |-> "none", signedFor |-> {}]
Became(k, ask) ==
  /\ asks' = [asks EXCEPT ![k] = ask]
  /\ UNCHANGED <<signer, wallet, walletNetwork>>

\* signTransaction and signAuthEntry, for the signer's network unless another is named.
RequestSignature(method, network) ==
  /\ Len(asks) < MaxAsks
  /\ asks' = Append(asks,
       IF method = "signAuthEntry" /\ ~wallet.signAuthEntry
         THEN [Fresh(method, network) EXCEPT !.at = "thrown", !.outcome = "unsupported"]
         ELSE Fresh(method, network))
  /\ UNCHANGED <<signer, wallet, walletNetwork>>

\* What the wallet reports is another network.  Fault: a name tells nothing.
MismatchOfPassphrase ==
  walletNetwork # signer.networkPassphrase /\ wallet.getNetwork = "passphrase"
Mismatch ==
  /\ walletNetwork # signer.networkPassphrase
  /\ \/ wallet.getNetwork = "passphrase"
     \/ wallet.getNetwork = "name" /\ signer.networkPassphrase \in NamedNetworks

\* assertNetwork answers, and the wallet is asked if nothing speaks against it.
AssertNetwork(k) ==
  /\ asks[k].at = "checking"
  /\ Became(k, IF signer.checkNetwork /\ Mismatch
                 THEN [asks[k] EXCEPT !.at = "thrown", !.outcome = "mismatch"]
                 ELSE [asks[k] EXCEPT !.at = "wallet"])

Approve(k) ==
  /\ asks[k].at = "wallet"
  /\ Became(k, [asks[k] EXCEPT !.at = "returned", !.user = "approved", !.outcome = "signed",
                  !.signedFor = {IF wallet.obeys THEN asks[k].network ELSE walletNetwork}])

\* A refusal is returned for either method, any other error only for auth entries.
WalletThrows(k, user, error) ==
  /\ asks[k].at = "wallet"
  /\ LET outcome == IF isUserRejection(error) THEN "rejected" ELSE "failed" IN
     Became(k, [asks[k] EXCEPT !.user = user, !.outcome = outcome,
                  !.at = IF outcome = "rejected" \/ asks[k].method = "signAuthEntry"
                           THEN "returned" ELSE "thrown"])

\* The user switches the wallet, requests being open or not.
SwitchNetwork(network) ==
  /\ network # walletNetwork /\ walletNetwork' = network
  /\ asks' = [k \in DOMAIN asks |-> [asks[k] EXCEPT !.switched = @ \/ asks[k].at = "wallet"]]
  /\ UNCHANGED <<signer, wallet>>

WalletInit ==
  /\ signer \in SignerOptions /\ wallet \in Wallets /\ walletNetwork \in Networks
  /\ asks = <<>>
WalletNext ==
  \/ \E method \in {"signTransaction", "signAuthEntry"}, network \in Networks :
       RequestSignature(method, network)
  \/ \E k \in DOMAIN asks :
       \/ AssertNetwork(k)
       \/ Approve(k)
       \/ \E e \in Refusals : WalletThrows(k, "declined", e)
       \/ \E e \in Failures : WalletThrows(k, "undecided", e)
  \/ \E network \in Networks : SwitchNetwork(network)
=============================================================================

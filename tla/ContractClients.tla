-------------------------- MODULE ContractClients --------------------------
(***************************************************************************)
(* Clients of contracts: the actions and the tables they name, which       *)
(* account these are addressed to, and what is kept of them.  The clients  *)
(* of system contracts make their members when they are asked for, and     *)
(* keep them; a generic client makes its members from a descriptor.        *)
(***************************************************************************)
EXTENDS TableRows

CONSTANT Definitions    \* of the system contracts: [account, action, table] by name

\* What the runtime asks of any object: `then`, and symbols.
Reflected == {"then"}

\* f, and the value of one more argument.
With(f, x, value) == [y \in DOMAIN f \cup {x} |-> IF y = x THEN value ELSE f[y]]

---------------------------------------------------------------------------
(* System contracts.                                                       *)

GetSysioContract(name, account, online) ==
    IF name \notin DOMAIN Definitions THEN Wrong
    ELSE [name |-> name, account |-> Default(account, Definitions[name].account),
          online |-> online, members |-> [m \in {} |-> Unset]]

\* An invoker or a query.
NewMember(contract, kind, name) ==
    [kind |-> kind, name |-> name, account |-> contract.account, online |-> contract.online]

\* The contract after one of its members was asked for; members are kept by
\* <<kind, name>>.
GetMember(contract, kind, name) ==
    IF \/ name \in Reflected \/ name \notin Definitions[contract.name][kind]
       \/ <<kind, name>> \in DOMAIN contract.members
    THEN contract
    ELSE [contract EXCEPT !.members = With(@, <<kind, name>>, NewMember(contract, kind, name))]

\* And what the caller gets.
MemberGot(contract, kind, name) ==
    IF name \in Reflected THEN Unset
    ELSE IF name \notin Definitions[contract.name][kind] THEN Wrong
    ELSE GetMember(contract, kind, name).members[<<kind, name>>]

CreateClient(accounts, online) ==
    [accounts |-> accounts, online |-> online, contracts |-> [n \in {} |-> Unset]]

GetContract(client, name) ==
    IF name \notin DOMAIN Definitions \/ name \in DOMAIN client.contracts THEN client
    ELSE [client EXCEPT !.contracts =
             With(@, name, GetSysioContract(name, client.accounts[name], client.online))]

\* client[name].actions[member] or client[name].tables[member].
Get(client, name, kind, member) ==
    LET opened == GetContract(client, name)
    IN  IF name \notin DOMAIN opened.contracts THEN opened
        ELSE [opened EXCEPT !.contracts[name] = GetMember(@, kind, member)]

Asked(client, name, kind, member) ==
    IF name \in Reflected THEN Unset
    ELSE IF name \notin DOMAIN Definitions THEN Wrong
    ELSE MemberGot(GetContract(client, name).contracts[name], kind, member)

\* An action can be prepared offline; the account may be given for it alone.
Prepare(invoker, account, data, codec, abi) ==
    [account |-> Default(account, invoker.account), data |-> PrepareAction(data, codec, abi)]

\* What is pushed.
Invoke(invoker, account, data, codec, abi) ==
    IF invoker.online THEN Prepare(invoker, account, data, codec, abi) ELSE Wrong

\* The rows asked for; by default the scope is the account.
QueryOf(query, scope) ==
    IF query.online
    THEN [code |-> query.account, table |-> query.name, scope |-> Default(scope, query.account)]
    ELSE Wrong

\* scopes() of the answer of get_table_by_scope: those of the rows in their order.
ScopesOf(query, rows) ==
    IF query.online THEN [i \in DOMAIN rows |-> rows[i].scope] ELSE Wrong

---------------------------------------------------------------------------
(* Generic clients.                                                        *)

ContractClient(descriptor, account) ==
    LET contract == [name |-> "", account |-> Default(account, descriptor.account), online |-> TRUE]
    IN  [contract |-> contract,
         actions |-> [a \in descriptor.action |-> NewMember(contract, "action", a)],
         tables |-> [t \in descriptor.table |-> NewMember(contract, "table", t)]]

\* There is no raw payload to fall back to.
BuildAction(client, action, account, data, serializer, abi) ==
    LET built == BuildContractAction(data, serializer, abi)
    IN  IF built = Wrong THEN Wrong
        ELSE [account |-> Default(account, client.actions[action].account), data |-> built]
=============================================================================

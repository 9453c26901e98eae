------------------------------ MODULE AcmeForm ------------------------------
(***************************************************************************)
(* The form of the global item acme (GlobalAcmeEditor.tsx, globalacme.ts): *)
(* accounts, DNS providers and resolvers that name one another, filled in  *)
(* from the API value, changed, and built into the value that is sent, or  *)
(* refused.  A text is not there, good, bad, or masked by rproxy; a file   *)
(* is in one of two directories; the call of a provider may use the secret *)
(* of its file.                                                            *)
(***************************************************************************)
EXTENDS Naturals, Sequences, FiniteSets

CONSTANT MaxFormEdits       \* bound: changes to the form

VARIABLES acmeValue, acmeForm, formEdits        \* the API value; the form; changes so far
acmeVars == <<acmeValue, acmeForm, formEdits>>
-----------------------------------------------------------------------------
EntryNames == {"", "a", "b"}
Plain == {"none", "good", "bad", "masked"}
AcmeFiles == {"none", "here", "elsewhere", "bad", "masked"}
Calls == {"none", "good", "secret", "bad", "masked"}

Types == {"powerdns", "http", "rfc2136", "acme_dns"}
PROVIDER_FIELDS ==
    [powerdns |-> {"api_url", "server_id", "api_key_file", "zones", "ttl"},
     http |-> {"add", "remove", "secret_file", "zones"},
     rfc2136 |-> {"server", "tsig_key_name", "tsig_algorithm", "tsig_secret_file", "zones", "ttl"},
     acme_dns |-> {"api_url", "credentials_file"}]
Needed ==
    [powerdns |-> {"api_url", "api_key_file"}, http |-> {"add", "remove"},
     rfc2136 |-> {"server", "tsig_key_name", "tsig_secret_file"}, acme_dns |-> {"api_url", "credentials_file"}]
providerTakes(type, field) == type \in Types /\ field \in PROVIDER_FIELDS[type]

FileFields == {"api_key_file", "secret_file", "tsig_secret_file", "credentials_file"}
ProviderFields == UNION {PROVIDER_FIELDS[t] : t \in Types}
InField(field) == IF field \in FileFields THEN AcmeFiles ELSE IF field \in {"add", "remove"} THEN Calls ELSE Plain

emptyAccount == [name |-> "", allowed |-> "none", eab_kid |-> "none", eab_hmac_key_file |-> "none", ca_file |-> "none"]
emptyProvider ==
    [name |-> "", type |-> "powerdns", allowed |-> "none", ca_file |-> "none", own |-> [f \in ProviderFields |-> "none"]]
emptyResolver == [name |-> "", account |-> "", challenge |-> "http-01", dns_provider |-> ""]

\* What rproxy stores, with what it masks: the names of files with secrets, and what a call carries.
Anyone == [emptyAccount EXCEPT !.name = "a", !.allowed = "good"]
Provider(type, own) ==
    [emptyProvider EXCEPT !.name = "b", !.type = type, !.allowed = "good",
                          !.own = [f \in ProviderFields |-> IF f \in DOMAIN own THEN own[f] ELSE "none"]]
Stored ==
    LET caFiles == [Anyone EXCEPT !.ca_file = "here"]
        bound == [Anyone EXCEPT !.eab_kid = "good", !.eab_hmac_key_file = "masked"]
        providers == {Provider("http", [add |-> "good", remove |-> "good", zones |-> "good"]),
                      Provider("http", [add |-> "masked", remove |-> "good", secret_file |-> "masked"]),
                      Provider("powerdns", [api_url |-> "good", api_key_file |-> "masked", ttl |-> "good"])}
        ofDns == [name |-> "a", account |-> "a", challenge |-> "dns-01", dns_provider |-> "b"]
    IN  {[accounts |-> {a}, providers |-> {}, resolvers |-> {}, storage |-> "none"] : a \in {caFiles, bound}}
          \union {[accounts |-> {Anyone}, providers |-> {p}, resolvers |-> {ofDns}, storage |-> "good"] : p \in providers}

\* toAcmeForm: the entries one after another.
InTurn(S) == IF S = {} THEN <<>> ELSE <<CHOOSE e \in S : TRUE>>
toAcmeForm(v) ==
    [accounts |-> InTurn(v.accounts), providers |-> InTurn(v.providers), resolvers |-> InTurn(v.resolvers),
     storage |-> v.storage]
EmptyValue == [accounts |-> {}, providers |-> {}, resolvers |-> {}, storage |-> "none"]
-----------------------------------------------------------------------------
\* A text or a file that cannot be sent.
Unsendable(x) == x \in {"bad", "masked"}

\* uniqueNames; the names that there are.
NamesIn(rows) == {rows[i].name : i \in DOMAIN rows} \ {""}
Misnamed(rows, i) == rows[i].name = "" \/ \E j \in 1..(i - 1) : rows[j].name = rows[i].name

\* buildAcme: what each row is refused for.
AccountRefused(f, i) ==
    LET a == f.accounts[i] IN
        {k \in {"allowed", "eab_kid", "eab_hmac_key_file", "ca_file"} : Unsendable(a[k])}
          \union (IF Misnamed(f.accounts, i) THEN {"name"} ELSE {})
          \union (IF a.allowed = "none" THEN {"allowed"} ELSE {})
          \union (IF (a.eab_kid = "none") # (a.eab_hmac_key_file = "none") THEN {"eab_kid", "eab_hmac_key_file"} ELSE {})
ProviderRefused(f, i) ==
    LET p == f.providers[i]
        own == {k \in ProviderFields : providerTakes(p.type, k)}
        secret == \E k \in {"add", "remove"} : p.own[k] = "secret"
    IN  {k \in own : Unsendable(p.own[k])} \union {k \in {"allowed", "ca_file"} : Unsendable(p[k])}
          \union (IF Misnamed(f.providers, i) THEN {"name"} ELSE {})
          \union (IF p.allowed = "none" THEN {"allowed"} ELSE {})
          \union (IF p.type \in Types THEN {k \in Needed[p.type] : p.own[k] = "none"} ELSE {"type"})
          \union (IF p.type = "http" /\ secret /\ p.own["secret_file"] = "none" THEN {"secret_file"} ELSE {})
ResolverRefused(f, i) ==
    LET r == f.resolvers[i] IN
        (IF Misnamed(f.resolvers, i) THEN {"name"} ELSE {})
          \union (IF r.account \notin NamesIn(f.accounts) THEN {"account"} ELSE {})
          \union (IF (IF r.challenge = "dns-01" THEN r.dns_provider \notin NamesIn(f.providers) ELSE r.dns_provider # "")
                  THEN {"dns_provider"} ELSE {})

\* All files are in one directory; those that a provider's type does not take are not among them.
FilesNamed(f) ==
    {<<"accounts", i, k>> : i \in DOMAIN f.accounts, k \in {"eab_hmac_key_file", "ca_file"}}
      \union {<<"providers", i, "ca_file">> : i \in DOMAIN f.providers}
      \union {x \in {<<"providers", i, k>> : i \in DOMAIN f.providers, k \in FileFields} :
                  providerTakes(f.providers[x[2]].type, x[3])}
TextOf(f, x) ==
    IF x[1] = "accounts" THEN f.accounts[x[2]][x[3]]
    ELSE IF x[3] = "ca_file" THEN f.providers[x[2]].ca_file ELSE f.providers[x[2]].own[x[3]]
Scattered(f) ==
    LET at(dir) == {x \in FilesNamed(f) : TextOf(f, x) = dir}
    IN  IF at("here") # {} /\ at("elsewhere") # {} THEN at("here") \union at("elsewhere") ELSE {}

Refusals(f) ==
    (UNION {{<<"accounts", i, k>> : k \in AccountRefused(f, i)} : i \in DOMAIN f.accounts})
      \union (UNION {{<<"providers", i, k>> : k \in ProviderRefused(f, i)} : i \in DOMAIN f.providers})
      \union (UNION {{<<"resolvers", i, k>> : k \in ResolverRefused(f, i)} : i \in DOMAIN f.resolvers})
      \union Scattered(f)
      \union (IF Unsendable(f.storage) THEN {<<"acme", 0, "storage">>} ELSE {})
      \union (IF f.accounts = <<>> THEN {<<"acme", 0, "accounts">>} ELSE {})

\* What is sent: of a provider what its type takes.
BuiltAcme(f) ==
    [accounts |-> {f.accounts[i] : i \in DOMAIN f.accounts},
     providers |-> {[f.providers[i] EXCEPT
                        !.own = [k \in ProviderFields |-> IF providerTakes(f.providers[i].type, k) THEN @[k] ELSE "none"]] :
                        i \in DOMAIN f.providers},
     resolvers |-> {f.resolvers[i] : i \in DOMAIN f.resolvers},
     storage |-> f.storage]
-----------------------------------------------------------------------------
AcmeInit ==
    /\ acmeValue \in Stored \union {EmptyValue}
    /\ acmeForm = toAcmeForm(acmeValue)
    /\ formEdits = 0

FormEdit(f) ==
    /\ formEdits < MaxFormEdits
    /\ acmeForm' = f /\ formEdits' = formEdits + 1
    /\ UNCHANGED acmeValue

Without(rows, i) == SubSeq(rows, 1, i - 1) \o SubSeq(rows, i + 1, Len(rows))
AddEntry ==
    \/ FormEdit([acmeForm EXCEPT !.accounts = Append(@, emptyAccount)])
    \/ FormEdit([acmeForm EXCEPT !.providers = Append(@, emptyProvider)])
    \/ FormEdit([acmeForm EXCEPT !.resolvers = Append(@, emptyResolver)])
RemoveEntry ==
    \/ \E i \in DOMAIN acmeForm.accounts : FormEdit([acmeForm EXCEPT !.accounts = Without(@, i)])
    \/ \E i \in DOMAIN acmeForm.providers : FormEdit([acmeForm EXCEPT !.providers = Without(@, i)])
    \/ \E i \in DOMAIN acmeForm.resolvers : FormEdit([acmeForm EXCEPT !.resolvers = Without(@, i)])

EditAccount(i) ==
    \/ \E x \in EntryNames : FormEdit([acmeForm EXCEPT !.accounts[i].name = x])
    \/ \E k \in {"allowed", "eab_kid"}, x \in Plain : FormEdit([acmeForm EXCEPT !.accounts[i][k] = x])
    \/ \E k \in {"eab_hmac_key_file", "ca_file"}, x \in AcmeFiles : FormEdit([acmeForm EXCEPT !.accounts[i][k] = x])

\* The editor's fields of a type.
FieldsShown(type) ==
    (IF type \in {"powerdns", "acme_dns"} THEN {"api_url"} ELSE {})
      \union (CASE type = "powerdns" -> {"server_id", "api_key_file"}
                [] type = "rfc2136" -> {"server", "tsig_key_name", "tsig_algorithm", "tsig_secret_file"}
                [] type = "acme_dns" -> {"credentials_file"}
                [] type = "http" -> {"secret_file", "add", "remove"}
                [] OTHER -> {})
      \union {k \in {"zones", "ttl"} : providerTakes(type, k)}
EditProvider(i) ==
    \/ \E x \in EntryNames : FormEdit([acmeForm EXCEPT !.providers[i].name = x])
    \/ \E x \in Types : FormEdit([acmeForm EXCEPT !.providers[i].type = x])
    \/ \E x \in Plain : FormEdit([acmeForm EXCEPT !.providers[i].allowed = x])
    \/ \E x \in AcmeFiles : FormEdit([acmeForm EXCEPT !.providers[i].ca_file = x])
    \/ \E k \in FieldsShown(acmeForm.providers[i].type) : \E x \in InField(k) :
          FormEdit([acmeForm EXCEPT !.providers[i].own[k] = x])

\* The names on offer are those in the form; a provider is only of dns-01, and is dropped with it.
ChallengedOnly(r, c) == [r EXCEPT !.challenge = c]
Challenged(r, c) == [r EXCEPT !.challenge = c, !.dns_provider = IF c = "dns-01" THEN @ ELSE ""]
EditResolver(i) ==
    \/ \E x \in EntryNames : FormEdit([acmeForm EXCEPT !.resolvers[i].name = x])
    \/ \E x \in NamesIn(acmeForm.accounts) \union {""} : FormEdit([acmeForm EXCEPT !.resolvers[i].account = x])
    \/ \E c \in {"http-01", "dns-01"} : FormEdit([acmeForm EXCEPT !.resolvers[i] = Challenged(@, c)])
    \/ /\ acmeForm.resolvers[i].challenge = "dns-01"
       /\ \E x \in NamesIn(acmeForm.providers) \union {""} : FormEdit([acmeForm EXCEPT !.resolvers[i].dns_provider = x])

AcmeNext ==
    \/ AddEntry \/ RemoveEntry
    \/ \E i \in DOMAIN acmeForm.accounts : EditAccount(i)
    \/ \E i \in DOMAIN acmeForm.providers : EditProvider(i)
    \/ \E i \in DOMAIN acmeForm.resolvers : EditResolver(i)
    \/ \E x \in Plain : FormEdit([acmeForm EXCEPT !.storage = x])

AcmeSpec == AcmeInit /\ [][AcmeNext]_acmeVars
-----------------------------------------------------------------------------
\* Whatever the form is refused for is a field that is shown, so that it can be put right: nothing left
\* over from another type or challenge stands in the way.  Nothing masked is sent, and a form nobody
\* touched is refused only for what is masked, and otherwise builds the value it was filled from.
IsShown(x) ==
    CASE x[1] = "providers" /\ x[3] \in ProviderFields -> x[3] \in FieldsShown(acmeForm.providers[x[2]].type)
      [] x[1] = "resolvers" /\ x[3] = "dns_provider" -> acmeForm.resolvers[x[2]].challenge = "dns-01"
      [] OTHER -> TRUE
MaskedIn(v) ==
    \/ \E a \in v.accounts : \E k \in DOMAIN a : a[k] = "masked"
    \/ \E p \in v.providers : p.ca_file = "masked" \/ \E k \in ProviderFields : p.own[k] = "masked"
BlameIsShown ==
    /\ \A x \in Refusals(acmeForm) : IsShown(x)
    /\ Refusals(acmeForm) = {} => ~MaskedIn(BuiltAcme(acmeForm))
    /\ formEdits = 0 /\ acmeValue # EmptyValue =>
          IF MaskedIn(acmeValue) THEN Refusals(acmeForm) # {} ELSE Refusals(acmeForm) = {} /\ BuiltAcme(acmeForm) = acmeValue
=============================================================================

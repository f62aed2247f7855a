----------------------------- MODULE ApiClient -----------------------------
(***************************************************************************)
(* The client's services: for each object the requests its methods make.   *)
(* A request names the mount of its router, the verb and the rest of the   *)
(* path; the body, the query string and the pages of a listing are left    *)
(* out.  "previewXls" is importXls called with preview set.                *)
(***************************************************************************)
EXTENDS TLC

\* The place in a path where a method puts the id of a record.
Id == "0190e8a2"

Request(verb, base, path) ==
    [verb |-> verb, base |-> base, path |-> path, preview |-> FALSE]
Get(base, path) == Request("GET", base, path)
Post(base, path) == Request("POST", base, path)
Put(base, path) == Request("PUT", base, path)
Preview(request) == [request EXCEPT !.preview = TRUE]

\* The methods nearly every service has.
Records(base) ==
    "list" :> Get(base, <<>>)
        @@ "getById" :> Get(base, <<Id>>)
        @@ "create" :> Post(base, <<>>)
        @@ "update" :> Put(base, <<"update">>)
        @@ "archive" :> Request("DELETE", base, <<"archive">>)
        @@ "restore" :> Request("PATCH", base, <<"restore">>)

\* Those of a service that has spreadsheets too.
WithSheets(base) ==
    "importXls" :> Post(base, <<"import-xls">>)
        @@ "previewXls" :> Preview(Post(base, <<"import-xls">>))
        @@ "exportXls" :> Post(base, <<"export-xls">>)
        @@ Records(base)

\* The methods of a service that offers only some of them.
Some(names, api) == [n \in names |-> api[n]]

chartOfAccountsApi == WithSheets(<<"accounting", "chart-of-accounts">>)
journalEntryApi ==
    LET base == <<"accounting", "journal-entries">>
    IN  "post" :> Post(base, <<"post">>)
            @@ "reverse" :> Post(base, <<"reverse">>)
            @@ WithSheets(base)
journalEntryLineApi == Records(<<"accounting", "journal-entry-lines">>)
ledgerBalanceApi ==
    Some({"list", "getById"}, Records(<<"accounting", "ledger-balances">>))
postingQueueApi ==
    LET base == <<"accounting", "posting-queues">>
    IN  "retry" :> Post(base, <<"retry">>)
            @@ Some({"list", "getById"}, Records(base))
categoryAccountMapApi == Records(<<"accounting", "category-account-map">>)
companyAccountApi == Records(<<"accounting", "company-accounts">>)
companyTransactionApi == Records(<<"accounting", "company-transactions">>)
internalTransferApi == Records(<<"accounting", "internal-transfers">>)
activityApi == WithSheets(<<"activities", "activities">>)
actualCostApi == WithSheets(<<"activities", "actual-costs">>)
addressApi == Records(<<"core", "addresses">>)
apInvoiceApi == WithSheets(<<"ap", "ap-invoices">>)
apInvoiceLineApi == Records(<<"ap", "ap-invoice-lines">>)
paymentApi == WithSheets(<<"ap", "payments">>)
apCreditMemoApi == WithSheets(<<"ap", "ap-credit-memos">>)

arInvoiceApi ==
    LET base == <<"ar", "ar-invoices">>
    IN  "approve" :> Put(base, <<"approve">>)
            @@ WithSheets(base)
arInvoiceLineApi == Records(<<"ar", "ar-invoice-lines">>)
receiptApi == WithSheets(<<"ar", "receipts">>)

authApi ==
    LET base == <<"auth", "">>
    IN  "login" :> Post(base, <<"login">>)
            @@ "logout" :> Post(base, <<"logout">>)
            @@ "refresh" :> Post(base, <<"refresh">>)
            @@ "getMe" :> Get(base, <<"me">>)
            @@ "check" :> Get(base, <<"check">>)
            @@ "changePassword" :> Post(base, <<"change-password">>)

catalogSkuApi ==
    LET base == <<"bom", "catalog-skus">>
    IN  "refreshEmbeddings" :> Post(base, <<"refresh-embeddings">>)
            @@ WithSheets(base)
vendorSkuApi ==
    LET base == <<"bom", "vendor-skus">>
    IN  "getUnmatched" :> Get(base, <<"unmatched">>)
            @@ "match" :> Post(base, <<"match">>)
            @@ "autoMatch" :> Post(base, <<"auto-match">>)
            @@ "batchMatch" :> Post(base, <<"batch-match">>)
            @@ "refreshEmbeddings" :> Post(base, <<"refresh-embeddings">>)
            @@ Records(base)
vendorPricingApi == Records(<<"bom", "vendor-pricing">>)

budgetApi ==
    LET base == <<"activities", "budgets">>
    IN  "createNewVersion" :> Post(base, <<"new-version">>)
            @@ WithSheets(base)
categoryApi == WithSheets(<<"activities", "categories">>)
changeOrderApi == WithSheets(<<"projects", "change-orders">>)

clientApi ==
    LET base == <<"core", "clients">>
    IN  "resetPassword" :> Post(base, <<Id, "reset-password">>)
            @@ WithSheets(base)
companyApi == WithSheets(<<"core", "companies">>)
contactApi == WithSheets(<<"core", "contacts">>)
costItemApi == Records(<<"projects", "cost-items">>)
costLineApi == Records(<<"activities", "cost-lines">>)
deliverableApi == WithSheets(<<"activities", "deliverables">>)

deliverableAssignmentApi ==
    Records(<<"activities", "deliverable-assignments">>)
emailApi == Records(<<"core", "emails">>)

employeeApi ==
    LET base == <<"core", "employees">>
    IN  "resetPassword" :> Post(base, <<Id, "reset-password">>)
            @@ WithSheets(base)

fieldGroupApi ==
    LET definitions == <<"core", "field-group-definitions">>
        grants == <<"core", "field-group-grants">>
    IN  "listDefinitions" :> Get(definitions, <<>>)
            @@ "createDefinition" :> Post(definitions, <<>>)
            @@ "updateDefinition" :> Put(definitions, <<"update">>)
            @@ "archiveDefinition" :> Request("DELETE", definitions, <<"archive">>)
            @@ "listGrantsForRole" :> Get(grants, <<"where">>)
            @@ "syncGrantsForRole" :> Put(grants, <<"sync-for-role">>)

numberingConfigApi ==
    Some({"list", "getById", "update"}, Records(<<"core", "numbering-config">>))

orphanPortalUsersApi ==
    LET base == <<"tenants", "orphan-portal-users">>
    IN  "previewOrphans" :> Get(base, <<"orphans", "preview">>)
            @@ "cleanupOrphan" :> Post(base, <<"orphans", "cleanup">>)
paymentTermApi == WithSheets(<<"core", "payment-terms">>)
phoneNumberApi == Records(<<"core", "phone-numbers">>)

policyApi ==
    LET base == <<"core", "policies">>
    IN  "listForRole" :> Get(base, <<"where">>)
            @@ "syncForRole" :> Put(base, <<"sync-for-role">>)
policyCatalogApi == Some({"list"}, Records(<<"core", "policy-catalog">>))
projectApi == WithSheets(<<"projects", "projects">>)

reportApi ==
    LET base == <<"reports", "">>
    IN  "profitabilityAll" :> Get(base, <<"project-profitability">>)
            @@ "profitabilityByProject" :> Get(base,
                                               <<"project-profitability", Id>>)
            @@ "cashflowByProject" :> Get(base, <<"project-cashflow", Id>>)
            @@ "cashflowForecast" :> Get(base,
                                         <<"project-cashflow", Id, "forecast">>)
            @@ "costBreakdownByProject" :> Get(base,
                                               <<"project-cost-breakdown", Id>>)
            @@ "arAging" :> Get(base, <<"ar-aging">>)
            @@ "arAgingByClient" :> Get(base, <<"ar-aging", Id>>)
            @@ "apAging" :> Get(base, <<"ap-aging">>)
            @@ "apAgingByVendor" :> Get(base, <<"ap-aging", Id>>)
            @@ "companyCashflow" :> Get(base, <<"company-cashflow">>)
            @@ "marginAnalysis" :> Get(base, <<"margin-analysis">>)

roleApi ==
    Some({"list", "getById", "create", "update"}, Records(<<"core", "roles">>))

stateFilterApi ==
    LET base == <<"core", "state-filters">>
    IN  "listForRole" :> Get(base, <<"where">>)
            @@ "syncForRole" :> Put(base, <<"sync-for-role">>)
taskApi == Records(<<"projects", "tasks">>)
taskGroupApi == Records(<<"projects", "task-groups">>)
tasksMasterApi == Records(<<"projects", "tasks-master">>)
taxIdentifierApi == Records(<<"core", "tax-identifiers">>)

tenantApi ==
    LET base == <<"tenants", "tenants">>
    IN  "getContacts" :> Get(base, <<Id, "contacts">>)
            @@ "getCompany" :> Get(base, <<Id, "company">>)
            @@ WithSheets(base)

tenantPreferencesApi ==
    Some({"list", "update"}, Records(<<"core", "tenant-preferences">>))
unitApi == Records(<<"projects", "units">>)

userApi ==
    LET base == <<"tenants", "portal-users">>
    IN  "register" :> Post(base, <<"register">>)
            @@ Some({"list", "getById", "update", "archive", "restore"},
                    Records(base))

vendorApi ==
    LET base == <<"core", "vendors">>
    IN  "importCombinedXls" :> Post(base, <<"import-combined-xls">>)
            @@ "previewCombinedXls" :> Preview(Post(base,
                                                    <<"import-combined-xls">>))
            @@ "exportCombinedXls" :> Post(base, <<"export-combined-xls">>)
            @@ WithSheets(base)

vendorContactApi ==
    LET base == <<"core", "vendor-contacts">>
    IN  "resetPassword" :> Post(base, <<Id, "reset-password">>)
            @@ "swapLoginEmail" :> Put(base, <<Id, "swap-login-email">>)
            @@ WithSheets(base)
vendorPartApi == Records(<<"activities", "vendor-parts">>)
=============================================================================

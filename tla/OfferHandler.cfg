CONSTANTS
    PayOfferCalls = {o1}
    GetInvoiceCalls = {}
    PayInvoiceCalls = {i1}
    plain = plain
    mixed = mixed
    Invoices <- MCInvoices
    Paths <- MCPaths
    NoInvoice = NoInvoice
    InvoiceTimeout = 3
    PollInterval = 2
    MaxRestarts = 1
SPECIFICATION Spec
CHECK_DEADLOCK FALSE
INVARIANTS
    TypeOK
    EndedIsForgotten
    EntryTracksCall
    AbandonedEarlyNeverPays
    FailureIsFinal
    OnlyLastMomentMissed
PROPERTY
    PaysAsPromised

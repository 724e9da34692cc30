CONSTANTS
    PayOfferCalls = {o1}
    GetInvoiceCalls = {g1}
    PayInvoiceCalls = {}
    plain = plain
    mixed = mixed
    Invoices <- MCInvoices
    Paths <- MCPaths
    NoInvoice = NoInvoice
    InvoiceTimeout = 3
    PollInterval = 2
    MaxRestarts = 1
SPECIFICATION FairSpec
CHECK_DEADLOCK FALSE
PROPERTY
    EveryCallEnds
